---- MODULE Spec2Model ----
(***************************************************************************)
(* Model of squishy's transcoding job queue (squishy/transcoder.py), of    *)
(* the settings handler that changes the concurrency limit, and of         *)
(* effeffmpeg's validation and command building (effeffmpeg.transcode()    *)
(* up to the start of the encoder process).                                *)
(*                                                                         *)
(* The job table is the database table `jobs`.  A request handler          *)
(* (transcode request, cancel_job, a process_job_queue call) is one atomic *)
(* step; a worker thread (_run_job_logic) takes one step per commit or     *)
(* blocking call.  The steps of different threads interleave freely: the   *)
(* source takes no lock around the admission decision, and a job only      *)
(* becomes `processing` in its worker thread, after the decision.          *)
(***************************************************************************)
EXTENDS Integers, Sequences, FiniteSets, Bags, TLC

(* ------------------------------ bounds --------------------------------- *)
\* number of jobs that are ever created (job ids are 1..MaxJobs, in creation order)
MaxJobs == 3
\* number of worker threads that are ever started
MaxThreads == 2
\* largest configured value of max_concurrent_jobs
MaxCap == 2
MaxLines == 2

(* ----------------------------- constants ------------------------------- *)
\* Python's None (and a key missing from a dict read with .get()) in a field
\* that holds a string
NONE == "None"
\* None in a field that holds a number or a bitrate: such a field is the empty
\* tuple, or a tuple holding the value
NoValue == <<>>

JobIds == 1..MaxJobs

Terminal == {"completed", "failed", "cancelled"}

(* ------------------------------ presets -------------------------------- *)
\* a bitrate string is modelled by its digits and its unit suffix
Bitrate(n, unit) == <<n, unit>>
\* an integer option (crf, flac_compression) that is set
Num(n) == <<n>>

\* {} : what config.presets.get(preset_name, {}) yields for a missing name,
\* every key read with .get() (None, or False for the flags)
EmptyPreset ==
    [container |-> NONE, codec |-> NONE, audio_codec |-> NONE, scale |-> NONE,
     crf |-> NoValue, bitrate |-> NoValue, audio_bitrate |-> NoValue,
     flac_compression |-> NoValue, force_software |-> FALSE,
     smart_encode |-> FALSE, preserve_all_audio |-> FALSE,
     preserve_subtitles |-> FALSE, remove_attachments |-> FALSE,
     audio_style |-> NONE, subtitle_style |-> NONE]

\* config.presets: the default preset "high", and three user-defined presets
presets ==
    [high  |-> [EmptyPreset EXCEPT !.container = ".mkv", !.codec = "hevc",
                                   !.audio_codec = "aac", !.scale = "1080p",
                                   !.crf = Num(20),
                                   !.audio_bitrate = Bitrate(192, "k")],
     both  |-> [EmptyPreset EXCEPT !.container = ".mkv", !.codec = "hevc",
                                   !.audio_codec = "aac", !.crf = Num(20),
                                   !.bitrate = Bitrate(2, "M")],
     avi   |-> [EmptyPreset EXCEPT !.container = ".avi"],
     smart |-> [EmptyPreset EXCEPT !.container = ".mp4", !.codec = "h264",
                                   !.audio_codec = "aac", !.smart_encode = TRUE]]

\* preset names a job can carry; "gone" is a name that config.presets does
\* not (or no longer does) hold
PresetNames == {"high", "both", "avi", "smart", "gone"}

\* config.presets.get(preset_name, {})
PresetGet(name) == IF name \in DOMAIN presets THEN presets[name] ELSE EmptyPreset

\* str.endswith(('k', 'M'))
EndsWithUnit(b) == b[2] \in {"k", "M"}

\* one line of a validation failure: the rule that is violated, the offending
\* value(s) the message quotes, and the valid values the message lists
Violation(rule, got, valid) == [rule |-> rule, got |-> got, valid |-> valid]

\* the rules a list of violations names
Rules(errors) == {errors[i].rule : i \in DOMAIN errors}

\* the violations validate_quality_options collects (encoder is None here;
\* crf and flac_compression are integers when set, bitrates are strings)
validate_quality_options(crf, bitrate, audio_codec, audio_bitrate, flac_compression) ==
    (IF crf # NoValue /\ ~(0 <= crf[1] /\ crf[1] <= 51)
        THEN <<Violation("crf_range", crf, {})>> ELSE <<>>)
    \o (IF crf # NoValue /\ bitrate # NoValue
        THEN <<Violation("crf_and_bitrate", <<>>, {})>> ELSE <<>>)
    \o (IF bitrate # NoValue /\ ~EndsWithUnit(bitrate)
        THEN <<Violation("bitrate_unit", bitrate, {})>> ELSE <<>>)
    \o (IF audio_bitrate # NoValue /\ audio_codec = "copy"
        THEN <<Violation("audio_bitrate_with_copy", <<>>, {})>> ELSE <<>>)
    \o (IF audio_bitrate # NoValue /\ ~EndsWithUnit(audio_bitrate)
        THEN <<Violation("audio_bitrate_unit", audio_bitrate, {})>> ELSE <<>>)
    \o (IF audio_bitrate # NoValue /\ audio_codec \notin {"aac", "opus", "libopus"}
        THEN <<Violation("audio_bitrate_codec", <<audio_codec>>, {})>> ELSE <<>>)
    \o (IF flac_compression # NoValue
           /\ ~(0 <= flac_compression[1] /\ flac_compression[1] <= 8)
        THEN <<Violation("flac_range", flac_compression, {})>> ELSE <<>>)
    \o (IF flac_compression # NoValue /\ audio_codec # "flac"
        THEN <<Violation("flac_codec", <<audio_codec>>, {})>> ELSE <<>>)

\* the rules of validate_quality_options
QualityRules ==
    {"crf_range", "crf_and_bitrate", "bitrate_unit", "audio_bitrate_with_copy",
     "audio_bitrate_unit", "audio_bitrate_codec", "flac_range", "flac_codec"}

\* the container/codec compatibility matrix of validate_codecs
matrix ==
    [c \in {".mp4", ".mkv", ".webm", ".mov"} |->
        CASE c = ".mp4"  -> [video |-> {"h264", "hevc"}, audio |-> {"aac", "copy"}]
          [] c = ".mkv"  -> [video |-> {"h264", "hevc", "vp9"},
                             audio |-> {"aac", "flac", "opus", "libopus", "copy"}]
          [] c = ".webm" -> [video |-> {"vp9", "av1"}, audio |-> {"opus", "libopus"}]
          [] c = ".mov"  -> [video |-> {"h264", "hevc"}, audio |-> {"aac", "copy"}]]

\* the violations validate_codecs collects: "Unsupported container format
\* '<container>'. Allowed: ...", "Invalid video codec '<codec>' for
\* '<container>'. Valid: ...", "Invalid audio codec ..."
validate_codecs(container, video_codec, audio_codec) ==
    IF container \notin DOMAIN matrix
    THEN <<Violation("container", <<container>>, DOMAIN matrix)>>
    ELSE (IF video_codec \notin matrix[container].video
             THEN <<Violation("video_codec", <<video_codec, container>>,
                              matrix[container].video)>>
             ELSE <<>>)
         \o (IF audio_codec \notin matrix[container].audio
             THEN <<Violation("audio_codec", <<audio_codec, container>>,
                              matrix[container].audio)>>
             ELSE <<>>)

\* the rules of validate_codecs
CodecRules == {"container", "video_codec", "audio_codec"}

\* the violations validate_config collects (the lines of the two validators'
\* messages are copied into its own list); it raises ValueError iff the list
\* is not empty.  The codec rules are applied only when container, codec and
\* audio_codec are all set
validate_config(config, check_container) ==
    (IF check_container /\ config.container = NONE
        THEN <<Violation("container_missing", <<>>, {})>> ELSE <<>>)
    \o (IF config.container # NONE /\ config.codec # NONE /\ config.audio_codec # NONE
        THEN validate_codecs(config.container, config.codec, config.audio_codec)
        ELSE <<>>)
    \o (IF config.scale # NONE
           /\ config.scale \notin {"360p", "480p", "720p", "1080p", "2160p"}
        THEN <<Violation("scale", <<config.scale>>,
                         {"360p", "480p", "720p", "1080p", "2160p"})>>
        ELSE <<>>)
    \o validate_quality_options(config.crf, config.bitrate, config.audio_codec,
                                config.audio_bitrate, config.flac_compression)

\* validate_preset_config: validate_config with check_container=True
validate_preset_config(config) == validate_config(config, TRUE)

\* a presets dictionary is a sequence of (name, config) items in insertion
\* order; its keys and the config stored under a key
PresetItem(name, config) == [name |-> name, config |-> config]
Keys(presets_data) == {presets_data[i].name : i \in DOMAIN presets_data}
Item(presets_data, name) ==
    presets_data[CHOOSE i \in DOMAIN presets_data : presets_data[i].name = name].config

\* validate_presets_data: every preset of the dictionary is validated in
\* order; the violations of the first invalid one are raised
validate_presets_data(presets_data) ==
    LET invalid == {i \in DOMAIN presets_data :
                       validate_preset_config(presets_data[i].config) # <<>>}
    IN IF invalid = {} THEN <<>>
       ELSE validate_preset_config(
                presets_data[CHOOSE i \in invalid : \A k \in invalid : i <= k].config)

\* the defaults table of infer_defaults_from_extension
defaults ==
    [c \in {".mp4", ".mkv", ".webm", ".mov"} |->
        CASE c = ".mp4"  -> <<"h264", "aac">>
          [] c = ".mkv"  -> <<"hevc", "aac">>
          [] c = ".webm" -> <<"vp9", "libopus">>
          [] c = ".mov"  -> <<"h264", "aac">>]

\* infer_defaults_from_extension: sys.exit(1) on an extension that has no
\* defaults, otherwise (ext, default video codec, default audio codec)
infer_defaults_from_extension(ext) ==
    IF ext \notin DOMAIN defaults THEN <<"SystemExit">> ELSE <<ext>> \o defaults[ext]

(* --------------------------- capabilities ------------------------------ *)
\* the hardware encoders detect_capabilities probes, with
\* encoder.replace("_vaapi", "")
tests == [h264_vaapi |-> "h264", hevc_vaapi |-> "hevc"]

\* detect_capabilities when the probes of the encoders in `supported` succeed
\* (none succeeds when the device node is absent): encoders maps the codec
\* name to the hardware encoder name
detect_capabilities(supported) ==
    [hwaccel |-> IF supported # {} THEN "vaapi" ELSE NONE,
     device |-> "/dev/dri/renderD128",
     encoders |-> [c \in {tests[e] : e \in supported} |->
                      CHOOSE e \in supported : tests[e] = c],
     fallback_encoders |-> [h264 |-> "libx264", hevc |-> "libx265",
                            vp9 |-> "libvpx-vp9", av1 |-> "libaom-av1"]]

(* -------------------------- command builder ---------------------------- *)
\* how a call ends: kind is "command" (cmd is the argument list), or the
\* exception raised: "ValueError" (errors are its violations), "KeyError",
\* "NameError", "SystemExit"
Result(kind, errors, cmd) == [kind |-> kind, errors |-> errors, cmd |-> cmd]

\* x or y, for optional values
Or(x, y, none) == IF x # none THEN x ELSE y

\* str(bitrate), str(n)
BitrateString(b) == ToString(b[1]) \o b[2]

\* generate_ffmpeg_command, lines 847-876: the extension's defaults, then
\* validate_config on the options (which hold no container), then
\* validate_codecs; "ok" when nothing is raised
generate_validation(output_ext, o) ==
    LET d == infer_defaults_from_extension(output_ext) IN
    IF d[1] = "SystemExit" THEN Result("SystemExit", <<>>, <<>>)
    ELSE LET video_codec == Or(o.codec, d[2], NONE)
             audio_codec == Or(o.audio_codec, d[3], NONE)
             config == [o EXCEPT !.container = NONE, !.codec = video_codec,
                                 !.audio_codec = audio_codec]
         IN IF validate_config(config, FALSE) # <<>>
            THEN Result("ValueError", validate_config(config, FALSE), <<>>)
            ELSE IF validate_codecs(d[1], video_codec, audio_codec) # <<>>
            THEN Result("ValueError",
                        validate_codecs(d[1], video_codec, audio_codec), <<>>)
            ELSE Result("ok", <<>>, <<>>)

\* generate_ffmpeg_command, lines 893-909: the hardware encoder chosen for the
\* requested codec (None: no hardware encoder)
video_encoder(capabilities, codec, force_software) ==
    IF /\ ~force_software
       /\ capabilities.hwaccel = "vaapi"
       /\ codec # NONE
       /\ (codec \o "_vaapi") \in DOMAIN capabilities.encoders
    THEN codec \o "_vaapi"
    ELSE NONE

\* the hardware-device initialisation arguments
hw_device_args(capabilities, codec, force_software) ==
    IF video_encoder(capabilities, codec, force_software) # NONE
    THEN <<"-init_hw_device", "vaapi=va:" \o capabilities.device,
           "-filter_hw_device", "va">>
    ELSE <<>>

\* line 922: the hardware encoder, or the software fallback of the codec
target_video_codec(capabilities, codec, force_software) ==
    IF video_encoder(capabilities, codec, force_software) # NONE
    THEN video_encoder(capabilities, codec, force_software)
    ELSE IF codec \in DOMAIN capabilities.fallback_encoders
         THEN capabilities.fallback_encoders[codec]
         ELSE "libx264"

\* lines 925-949: the video stream is copied when smart_encode is on, the
\* probe found a video stream (input_codec is its codec_name, None when the
\* probe yields nothing), its codec is the requested one and no scaling other
\* than "1080p" is asked for
is_video_copy(o, input_codec) ==
    /\ o.smart_encode
    /\ input_codec # NONE
    /\ input_codec = o.codec
    /\ o.scale \in {NONE, "1080p"}

\* video_args with the bitrate argument appended to a copied stream as well
video_args_with_bitrate_on_copy(capabilities, o, input_codec) ==
    IF is_video_copy(o, input_codec)
    THEN <<"-c:v", "copy">>
         \o (IF o.bitrate # NoValue THEN <<"-b:v", BitrateString(o.bitrate)>> ELSE <<>>)
    ELSE <<"NameError">>

\* lines 951-971: "-c:v copy" for a copied stream.  Otherwise the encoder
\* arguments are being assembled when the name using_software is read, at
\* line 967 (video_encoder is None) or at line 970 (video_encoder is set);
\* the name is bound nowhere, so the read raises NameError
video_args(capabilities, o, input_codec) ==
    IF is_video_copy(o, input_codec) THEN <<"-c:v", "copy">> ELSE <<"NameError">>

\* lines 974-995; audio_codec is the requested codec or the extension's default
audio_args(o, audio_codec) ==
    (IF o.preserve_all_audio THEN <<"-map", "0:a">> ELSE <<>>)
    \o <<"-c:a", audio_codec>>
    \o (IF o.audio_bitrate # NoValue /\ audio_codec # "copy"
        THEN <<"-b:a", BitrateString(o.audio_bitrate)>> ELSE <<>>)
    \o (IF o.flac_compression # NoValue /\ audio_codec = "flac"
        THEN <<"-compression_level", ToString(o.flac_compression[1])>> ELSE <<>>)
    \o (IF audio_codec \in {"opus", "libopus"} THEN <<"-ac", "2">> ELSE <<>>)

\* lines 998-1005
sub_args(o, output_ext) ==
    IF o.preserve_subtitles
    THEN <<"-map", "0:s?", "-c:s", IF output_ext = ".mp4" THEN "mov_text" ELSE "copy">>
    ELSE <<>>

\* lines 1008-1010
att_args(o) == IF o.remove_attachments THEN <<"-map", "-0:t?">> ELSE <<>>

\* map_args with mapped_streams computed without remove_attachments
map_args_without_attachments(o, input_codec) ==
    IF o.preserve_all_audio \/ o.preserve_subtitles
    THEN <<"-map", IF is_video_copy(o, input_codec) THEN "0:v" ELSE "0:v:0">>
    ELSE <<>>

\* lines 1016-1027: the explicit video map
map_args(o, input_codec) ==
    IF o.preserve_all_audio \/ o.preserve_subtitles \/ o.remove_attachments
    THEN <<"-map", IF is_video_copy(o, input_codec) THEN "0:v" ELSE "0:v:0">>
    ELSE <<>>

\* generate_ffmpeg_command as transcode() calls it for a worker thread
\* (overwrite=True, quiet=True, progress=True): o are the resolved options
generate_ffmpeg_command(output_ext, capabilities, o, input_codec) ==
    IF generate_validation(output_ext, o).kind # "ok"
    THEN generate_validation(output_ext, o)
    ELSE IF video_args(capabilities, o, input_codec) = <<"NameError">>
    THEN Result("NameError", <<>>, <<>>)
    ELSE Result("command", <<>>,
            <<"ffmpeg", "-y">>
            \o hw_device_args(capabilities, o.codec, o.force_software)
            \o <<"-i", "input">>
            \o map_args(o, input_codec)
            \o video_args(capabilities, o, input_codec)
            \o audio_args(o, Or(o.audio_codec,
                                infer_defaults_from_extension(output_ext)[3], NONE))
            \o sub_args(o, output_ext)
            \o att_args(o)
            \o <<"-progress", "pipe:1", "-nostats", "output">>)

\* the preset lookup with presets_data.get(preset_name, {}) in place of the
\* membership test
preset_lookup_with_default(presets_data, preset_name) ==
    LET config == IF preset_name \in Keys(presets_data[1])
                  THEN Item(presets_data[1], preset_name) ELSE EmptyPreset
    IN IF preset_name = NONE
       THEN [kind |-> "ok", errors |-> <<>>, config |-> EmptyPreset]
       ELSE IF validate_presets_data(presets_data[1]) # <<>>
       THEN [kind |-> "ValueError", errors |-> validate_presets_data(presets_data[1]),
             config |-> EmptyPreset]
       ELSE IF validate_preset_config(config) # <<>>
       THEN [kind |-> "ValueError", errors |-> validate_preset_config(config),
             config |-> EmptyPreset]
       ELSE [kind |-> "ok", errors |-> <<>>, config |-> config]

\* transcode(), lines 1114-1151: the preset named by preset_name.
\* presets_data is the optional dictionary (NoValue: None).  kind "ok" with
\* the preset's config, or the exception raised
preset_lookup(presets_data, preset_name) ==
    IF preset_name = NONE THEN [kind |-> "ok", errors |-> <<>>, config |-> EmptyPreset]
    ELSE IF presets_data = NoValue
    THEN [kind |-> "ValueError", errors |-> <<Violation("presets_missing", <<>>, {})>>,
          config |-> EmptyPreset]
    ELSE IF validate_presets_data(presets_data[1]) # <<>>
    THEN [kind |-> "ValueError", errors |-> validate_presets_data(presets_data[1]),
          config |-> EmptyPreset]
    ELSE IF preset_name \notin Keys(presets_data[1])
    THEN [kind |-> "KeyError", errors |-> <<>>, config |-> EmptyPreset]
    ELSE IF validate_preset_config(Item(presets_data[1], preset_name)) # <<>>
    THEN [kind |-> "ValueError",
          errors |-> validate_preset_config(Item(presets_data[1], preset_name)),
          config |-> EmptyPreset]
    ELSE [kind |-> "ok", errors |-> <<>>, config |-> Item(presets_data[1], preset_name)]

\* transcode(), lines 1153-1180: keyword arguments take precedence over the
\* preset's values, then the preset's styles override both
resolved_options(args, preset_config) ==
    [container |-> NONE,
     codec |-> Or(args.codec, preset_config.codec, NONE),
     scale |-> Or(args.scale, preset_config.scale, NONE),
     audio_codec |-> IF preset_config.audio_style = "copy" THEN "copy"
                     ELSE Or(args.audio_codec, preset_config.audio_codec, NONE),
     crf |-> Or(args.crf, preset_config.crf, NoValue),
     bitrate |-> Or(args.bitrate, preset_config.bitrate, NoValue),
     audio_bitrate |-> Or(args.audio_bitrate, preset_config.audio_bitrate, NoValue),
     flac_compression |-> Or(args.flac_compression, preset_config.flac_compression,
                             NoValue),
     force_software |-> args.force_software \/ preset_config.force_software,
     smart_encode |-> args.smart_encode \/ preset_config.smart_encode,
     preserve_all_audio |-> \/ preset_config.audio_style = "copy"
                            \/ args.preserve_all_audio
                            \/ preset_config.preserve_all_audio,
     preserve_subtitles |-> CASE preset_config.subtitle_style = "copy" -> TRUE
                              [] preset_config.subtitle_style = "none" -> FALSE
                              [] OTHER -> \/ args.preserve_subtitles
                                          \/ preset_config.preserve_subtitles,
     remove_attachments |-> args.remove_attachments \/ preset_config.remove_attachments,
     audio_style |-> NONE, subtitle_style |-> NONE]

\* transcode() up to the built command: the preset is looked up and
\* validated, the options are resolved, the command is built
transcode(presets_data, preset_name, args, output_ext, capabilities, input_codec) ==
    IF preset_lookup(presets_data, preset_name).kind # "ok"
    THEN Result(preset_lookup(presets_data, preset_name).kind,
                preset_lookup(presets_data, preset_name).errors, <<>>)
    ELSE generate_ffmpeg_command(output_ext, capabilities,
            resolved_options(args, preset_lookup(presets_data, preset_name).config),
            input_codec)

(* ------------------------------- state --------------------------------- *)
VARIABLES
    \* jobs.status of job j; "none" while the job has not been created,
    \* "deleted" once its record has been deleted
    status,
    \* config.max_concurrent_jobs
    max_concurrent_jobs,
    \* the worker threads started so far (threading.Thread objects running
    \* _run_job_logic), as a bag of records
    \*   job  the job id the thread was started for
    \*   pc   the thread's position in _run_job_logic
    \*   rc   the exit code process.wait() returned to it (-1: none)
    threads,
    \* RUNNING_PROCESSES: job ids that have a process handle registered
    RUNNING_PROCESSES,
    \* what cancel_job did for job j when it last returned True: the status it
    \* found ("pending" or "processing"); "none" while it has not
    cancelled_from,
    \* what the last step did to the limit: "increased" or "decreased" if it
    \* was the settings handler and changed it, "none" otherwise
    limit_change,
    \* jobs.progress of job j, in hundredths (default 0.0 is 0, 1.0 is 100)
    progress,
    \* the arguments of one call of effeffmpeg.transcode() (NoRequest: no call)
    request,
    \* the position of that call, the options it resolved, the encoder
    \* selection it made, and how it ended
    build,
    \* a TranscodeProcess object: process (self.process is set), started,
    \* finished, returncode, _duration_seconds and progress_callback (None, or
    \* how the callback behaves: "returns" or the exception it raises)
    transcode_process,
    \* the encoder process: state, exit code, the signals it was sent, and
    \* the lines it has yet to write to stdout and to stderr
    child,
    \* the lines written to each channel and not yet read
    pipes,
    \* the position of the reader thread of each channel: "none", "reading",
    \* "eof" (end of stream reached), "raised" (ended by an exception)
    readers,
    \* stdout_buffer and stderr_buffer
    buffers,
    \* the thread that uses the object: transcode() with a progress callback,
    \* or the caller of a non-blocking transcode(); its position, the timeout
    \* of the wait() it is in, whether that wait() was called by terminate(),
    \* how its last method call ended, and whether a wait() of the object has
    \* returned None so far
    client,
    \* the invocations of the progress callback so far
    calls,
    \* the configuration file config.json: its "presets" entry (a presets
    \* dictionary; empty also when the entry or the file is missing) and the
    \* JSON text of its "hw_capabilities" entry
    config_file,
    \* the last request to a settings handler and what the handler answered:
    \* the handler, the form's merge_mode, the presets dictionary or the
    \* capabilities document sent, config.presets as the handler loaded it,
    \* and the outcome
    response,
    \* scheduler._scheduler_thread: the thread the module refers to (0: None)
    _scheduler_thread,
    \* scheduler._stop_event: whether the event is set
    _stop_event,
    \* the position of each scheduler loop thread started so far
    loops

vars == <<status, max_concurrent_jobs, threads, RUNNING_PROCESSES, cancelled_from,
          limit_change, progress, request, build, transcode_process, child, pipes, readers,
          buffers, client, calls, config_file, response, _scheduler_thread,
          _stop_event, loops>>

\* the variables of the settings handlers and of the scheduler
service_vars == <<config_file, response, _scheduler_thread, _stop_event, loops>>

\* the variables of the process supervisor
supervisor_vars == <<transcode_process, child, pipes, readers, buffers, client, calls>>

\* the variables of the call of effeffmpeg.transcode()
build_vars == <<request, build, supervisor_vars, service_vars>>

\* the variables of the job queue
queue_vars == <<status, max_concurrent_jobs, threads, RUNNING_PROCESSES,
                cancelled_from, limit_change, progress>>

\* positions of a worker thread:
\*   "spawned"  Thread.start() done, _run_job_logic not yet at its first query
\*   "setup"    status set to processing, transcode() not yet called
\*   "running"  the encoder process is running, the thread is in process.wait()
\*   "exited"   process.wait() has returned
\*   "queue"    completed or failed committed, process_job_queue not yet called
\*   "done"     returned
\*   "dead"     ended by SystemExit, or by an exception raised in the
\*              `except Exception` handler
ThreadPcs == {"spawned", "setup", "running", "exited", "queue", "done", "dead"}

ThreadRecords == [job : JobIds, pc : ThreadPcs, rc : {-1, 0, 1}]

\* a thread at position pc for job j, holding no exit code
Thread(j, pc) == [job |-> j, pc |-> pc, rc |-> -1]

TypeOK ==
    /\ status \in [JobIds -> {"none", "pending", "processing", "deleted"} \cup Terminal]
    /\ max_concurrent_jobs \in 1..MaxCap
    /\ IsABag(threads)
    /\ BagToSet(threads) \subseteq ThreadRecords
    /\ BagCardinality(threads) <= MaxThreads
    /\ RUNNING_PROCESSES \subseteq JobIds
    /\ cancelled_from \in [JobIds -> {"none", "pending", "processing"}]
    /\ limit_change \in {"none", "increased", "decreased"}
    /\ progress \in [JobIds -> 0..100]

(* ------------- TranscodeProcess: the process supervisor ---------------- *)
\* the timestamps HH:MM:SS that occur in the encoder's output, with the
\* numbers float() gives for their three parts
TimeParts ==
    ("00:01:00" :> <<0, 1, 0>>) @@ ("00:02:00" :> <<0, 2, 0>>)
        @@ ("00:03:00" :> <<0, 3, 0>>)

\* h * 3600 + m * 60 + s
Seconds(timestamp) ==
    TimeParts[timestamp][1] * 3600 + TimeParts[timestamp][2] * 60
        + TimeParts[timestamp][3]

\* the lines of the encoder's standard output, each as its tokens ("=" is a
\* token): -progress records, a statistics line, and a line without "="
OutputLines ==
    {<<"out_time", "=", "00:01:00">>, <<"out_time", "=", "00:03:00">>,
     <<"progress", "=", "end">>,
     <<"frame", "=", "1", "time", "=", "00:01:00">>,
     <<"time", "00:01:00">>}

\* all sequences over S of length at most n
SeqsUpTo(S, n) == UNION {[1..k -> S] : k \in 0..n}

\* what the encoder can write to stdout and to stderr
StdoutStreams == SeqsUpTo(OutputLines, MaxLines)
StderrStreams == {<<>>, <<<<"Duration:", "00:02:00">>>>}

Channels == {"stdout", "stderr"}

\* a rational number n / d, and 1.0
Fraction(n, d) == <<n, d>>
One == Fraction(1, 1)

\* the position of the first "=" of a line (0: none)
FirstEq(line) ==
    IF "=" \notin {line[i] : i \in DOMAIN line} THEN 0
    ELSE CHOOSE i \in DOMAIN line :
            line[i] = "=" /\ \A k \in 1..(i - 1) : line[k] # "="

\* line_str.split('=', 1): the key and the value
Key(line) == SubSeq(line, 1, FirstEq(line) - 1)
Value(line) == SubSeq(line, FirstEq(line) + 1, Len(line))

\* _duration_pattern.search(line_str): the timestamp after "Duration:"
DurationMatch(line) ==
    {line[i + 1] : i \in {k \in 1..(Len(line) - 1) :
                            line[k] = "Duration:" /\ line[k + 1] \in DOMAIN TimeParts}}

\* _time_pattern.search(line_str): the timestamp after "time=" (the pattern
\* is searched for, so it is also found at the end of "out_time=")
TimeMatch(line) ==
    {line[i + 2] : i \in {k \in 1..(Len(line) - 2) :
                            /\ line[k] \in {"time", "out_time"}
                            /\ line[k + 1] = "="
                            /\ line[k + 2] \in DOMAIN TimeParts}}

\* lines 494-507: _duration_seconds after the line has been looked at
duration_after(line, duration_seconds) ==
    IF duration_seconds = NoValue /\ DurationMatch(line) # {}
    THEN Num(Seconds(CHOOSE t \in DurationMatch(line) : TRUE))
    ELSE duration_seconds

\* a truthy _duration_seconds
Known(duration_seconds) == duration_seconds # NoValue /\ duration_seconds[1] # 0

\* the end marker tested for by a wrong value
is_end_marker_continue(key, value) ==
    key = <<"progress">> /\ value = <<"continue">>

\* line 525
is_end_marker(key, value) == key = <<"progress">> /\ value = <<"end">>

\* the fraction without the cap at 1.0
progress_percent_uncapped(current_seconds, duration_seconds) ==
    Fraction(current_seconds, duration_seconds)

\* lines 544 and 595: min(current_seconds / duration_seconds, 1.0)
progress_percent(current_seconds, duration_seconds) ==
    IF current_seconds > duration_seconds THEN One
    ELSE Fraction(current_seconds, duration_seconds)

\* every path guarded by `except (ValueError, IndexError)` only
handler_narrow(line) == {"ValueError", "IndexError"}

\* the exceptions of the callback that the reader catches on the path the
\* line takes: `except Exception` (line 577) around the -progress records,
\* `except (ValueError, IndexError)` (line 601) around the fallback scan
handler(line) ==
    IF FirstEq(line) # 0 THEN {"ValueError", "IndexError", "RuntimeError"}
    ELSE {"ValueError", "IndexError"}

\* a callback invocation: who made it, for what, and with which fraction
Report(source, current_seconds, duration_seconds, fraction) ==
    [source |-> source, current_seconds |-> current_seconds,
     duration_seconds |-> duration_seconds, fraction |-> fraction]

\* lines 509-603: the callback invocations (none or one) that the reader of
\* channel c makes for a line, duration_seconds being _duration_seconds after
\* lines 494-507
reports(c, line, duration_seconds, progress_callback) ==
    IF progress_callback = NONE THEN <<>>
    ELSE IF FirstEq(line) # 0
    THEN IF is_end_marker(Key(line), Value(line))
         THEN <<Report("end", 0, 0, One)>>
         ELSE IF /\ Key(line) = <<"out_time">>
                 /\ Known(duration_seconds)
                 /\ Len(Value(line)) = 1
                 /\ Value(line)[1] \in DOMAIN TimeParts
         THEN <<Report("out_time", Seconds(Value(line)[1]), duration_seconds[1],
                       progress_percent(Seconds(Value(line)[1]),
                                        duration_seconds[1]))>>
         ELSE <<>>
    ELSE IF Known(duration_seconds) /\ c = "stdout" /\ TimeMatch(line) # {}
    THEN LET t == CHOOSE t \in TimeMatch(line) : TRUE IN
         <<Report("fallback", Seconds(t), duration_seconds[1],
                  progress_percent(Seconds(t), duration_seconds[1]))>>
    ELSE <<>>

\* positions of the thread that uses the supervisor:
\*   "idle"               between two method calls (non-blocking use)
\*   "calling_start", "calling_wait", "calling_terminate"
\*                        the method has been called and has done nothing yet
\*   "process_wait"       in self.process.wait(timeout)
\*   "join_stdout", "join_stderr"  in the join() of a reader thread
\*   "terminate_check"    in terminate(), self.wait(timeout=5) has returned
\*   "final"              in transcode(), process.wait() has returned
\*   "returned"           transcode() has returned
ClientPcs ==
    {"idle", "calling_start", "calling_wait", "calling_terminate", "process_wait",
     "join_stdout", "join_stderr", "terminate_check", "final", "returned"}

\* the supervisor is not part of the behaviours of the other specifications
NotSupervised ==
    /\ transcode_process = NoValue
    /\ child = NoValue
    /\ pipes = NoValue
    /\ readers = NoValue
    /\ buffers = NoValue
    /\ client = NoValue
    /\ calls = NoValue

\* the settings handlers and the scheduler are not part of the behaviours
\* of the other specifications
NoService ==
    /\ config_file = NoValue /\ response = NoValue
    /\ _scheduler_thread = 0 /\ _stop_event = FALSE /\ loops = NoValue

\* no call of effeffmpeg.transcode() is being followed
NoRequest == <<>>
Idle == [pc |-> "idle"]

Init ==
    /\ status = [j \in JobIds |-> "none"]
    /\ max_concurrent_jobs \in 1..MaxCap
    /\ threads = EmptyBag
    /\ RUNNING_PROCESSES = {}
    /\ cancelled_from = [j \in JobIds |-> "none"]
    /\ limit_change = "none"
    /\ progress = [j \in JobIds |-> 0]
    /\ request = NoRequest
    /\ build = Idle
    /\ NotSupervised
    /\ NoService

(* ------------------------------ queries -------------------------------- *)
\* get_running_job_count: TranscodeJob.query.filter_by(status="processing").count()
get_running_job_count == Cardinality({j \in JobIds : status[j] = "processing"})

\* the pending jobs as a set
PendingSet == {j \in JobIds : status[j] = "pending"}

\* the jobs of S in ascending order (job ids are handed out in creation order)
RECURSIVE Ascending(_)
Ascending(S) ==
    IF S = {} THEN <<>>
    ELSE LET m == CHOOSE x \in S : \A y \in S : x <= y
         IN <<m>> \o Ascending(S \ {m})

\* get_pending_jobs with the order reversed: created_at descending
get_pending_jobs_newest_first ==
    LET s == Ascending(PendingSet) IN [i \in 1..Len(s) |-> s[Len(s) + 1 - i]]

\* get_pending_jobs: the pending jobs ordered by created_at ascending
get_pending_jobs == Ascending(PendingSet)

\* pending_jobs[:available_slots]
Prefix(s, n) == SubSeq(s, 1, IF n < Len(s) THEN n ELSE Len(s))

\* the threads of job j that are at one of the positions pcs
ThreadsAt(j, pcs) == {r \in BagToSet(threads) : r.job = j /\ r.pc \in pcs}

\* the number of worker threads that were started for job j
NumThreadsOf(j) ==
    BagCardinality([r \in ThreadsAt(j, ThreadPcs) |-> threads[r]])

\* the worker threads that have not ended
Alive == {r \in BagToSet(threads) : r.pc \notin {"done", "dead"}}

(* ------------------------------ actions -------------------------------- *)
\* the bag b with one thread moved from record r to record r2
Moved(b, r, r2) == (b (-) SetToBag({r})) (+) SetToBag({r2})

\* the bag of threads _start_transcode_job_thread starts for the jobs of the
\* sequence js
RECURSIVE Started(_)
Started(js) ==
    IF js = <<>> THEN EmptyBag
    ELSE SetToBag({Thread(Head(js), "spawned")}) (+) Started(Tail(js))

\* the thread bag b after _start_transcode_job_thread has run for each job of
\* js (no more than MaxThreads threads are ever started)
StartThreads(b, js) ==
    /\ BagCardinality(b) + Len(js) <= MaxThreads
    /\ threads' = b (+) Started(js)

\* create_job as the library page's batch handler calls it for a selected
\* file: the job gets the next job id and status pending; the handler's
\* process_job_queue call comes after the last file's job is created
create_job(j) ==
    /\ status[j] = "none"
    /\ \A i \in JobIds : i < j => status[i] # "none"
    /\ status' = [status EXCEPT ![j] = "pending"]
    /\ UNCHANGED <<max_concurrent_jobs, threads, RUNNING_PROCESSES, cancelled_from, progress, build_vars>>
    /\ limit_change' = "none"

\* start_transcode(job): start the job's thread if the running count is below
\* the limit, otherwise leave the job pending
start_transcode(j) ==
    IF get_running_job_count < max_concurrent_jobs
    THEN StartThreads(threads, <<j>>)
    ELSE UNCHANGED threads

\* a transcode request (api.transcode, ui.transcode): create_job gives the
\* next job id and status pending, then start_transcode runs for the job
transcode_request(j) ==
    /\ status[j] = "none"
    /\ \A i \in JobIds : i < j => status[i] # "none"
    /\ status' = [status EXCEPT ![j] = "pending"]
    /\ start_transcode(j)
    /\ UNCHANGED <<max_concurrent_jobs, RUNNING_PROCESSES, cancelled_from, progress, build_vars>>
    /\ limit_change' = "none"

\* the thread bag after proc.terminate() on the registered process of job j:
\* the waiting threads of the job get a nonzero exit code
Terminated(j) ==
    LET hit == ThreadsAt(j, {"running"}) IN
    (threads (-) [r \in hit |-> threads[r]])
      (+) [r2 \in {[r EXCEPT !.pc = "exited", !.rc = 1] : r \in hit} |->
              threads[[r2 EXCEPT !.pc = "running", !.rc = -1]]]

\* cancel_job(job_id): a processing job has its registered process (if any)
\* terminated and its handle deleted, and becomes cancelled; a pending job
\* becomes cancelled; for any other status, and for a deleted record, it
\* returns False
cancel_job(j) ==
    /\ status[j] # "none"
    /\ IF status[j] = "processing"
       THEN /\ IF j \in RUNNING_PROCESSES
               THEN /\ threads' = Terminated(j)
                    /\ RUNNING_PROCESSES' = RUNNING_PROCESSES \ {j}
               ELSE UNCHANGED <<threads, RUNNING_PROCESSES>>
            /\ status' = [status EXCEPT ![j] = "cancelled"]
            /\ cancelled_from' = [cancelled_from EXCEPT ![j] = "processing"]
       ELSE IF status[j] = "pending"
       THEN /\ status' = [status EXCEPT ![j] = "cancelled"]
            /\ cancelled_from' = [cancelled_from EXCEPT ![j] = "pending"]
            /\ UNCHANGED <<threads, RUNNING_PROCESSES>>
       ELSE UNCHANGED <<status, cancelled_from, threads, RUNNING_PROCESSES>>
    /\ UNCHANGED <<max_concurrent_jobs, progress, build_vars>>
    /\ limit_change' = "none"

\* remove_job without its status test: the record is deleted whenever it
\* exists
remove_job_any_status(j) ==
    /\ IF status[j] \notin {"none", "deleted"}
       THEN /\ status' = [status EXCEPT ![j] = "deleted"]
            /\ progress' = [progress EXCEPT ![j] = 0]
       ELSE UNCHANGED <<status, progress>>
    /\ UNCHANGED <<max_concurrent_jobs, threads, RUNNING_PROCESSES, cancelled_from,
                   build_vars>>
    /\ limit_change' = "none"

\* remove_job(job_id): the record of a completed, failed or cancelled job is
\* deleted (return True); for an id that has no record, and for a job in any
\* other status, nothing is done (return False).  A deleted record has no
\* fields: its progress is kept as 0
remove_job(j) ==
    /\ IF status[j] \in {"completed", "failed", "cancelled"}
       THEN /\ status' = [status EXCEPT ![j] = "deleted"]
            /\ progress' = [progress EXCEPT ![j] = 0]
       ELSE UNCHANGED <<status, progress>>
    /\ UNCHANGED <<max_concurrent_jobs, threads, RUNNING_PROCESSES, cancelled_from, build_vars>>
    /\ limit_change' = "none"

\* process_job_queue on the thread bag b, where load_config() yields the limit
\* max_jobs: with available_slots = max(0, max_jobs - running count), start a
\* thread for each of the first available_slots pending jobs
process_job_queue(b, max_jobs) ==
    LET available_slots ==
            IF max_jobs - get_running_job_count > 0
            THEN max_jobs - get_running_job_count ELSE 0
        jobs_to_start == Prefix(get_pending_jobs, available_slots)
    IN StartThreads(b, jobs_to_start)

\* process_job_queue called from outside the worker threads (library batch
\* queue, scheduler)
call_process_job_queue ==
    /\ process_job_queue(threads, max_concurrent_jobs)
    /\ UNCHANGED <<status, max_concurrent_jobs, RUNNING_PROCESSES, cancelled_from, progress, build_vars>>
    /\ limit_change' = "none"

\* update_paths_and_hw that cancels the processing jobs when the limit is
\* decreased below their number
update_paths_and_hw_preempting(new_max_concurrent_jobs) ==
    /\ new_max_concurrent_jobs # max_concurrent_jobs
    /\ max_concurrent_jobs' = new_max_concurrent_jobs
    /\ IF new_max_concurrent_jobs > max_concurrent_jobs
       THEN /\ process_job_queue(threads, new_max_concurrent_jobs)
            /\ limit_change' = "increased"
            /\ UNCHANGED status
       ELSE /\ UNCHANGED threads
            /\ limit_change' = "decreased"
            /\ status' = IF new_max_concurrent_jobs < get_running_job_count
                         THEN [j \in JobIds |->
                                 IF status[j] = "processing" THEN "cancelled"
                                 ELSE status[j]]
                         ELSE status
    /\ UNCHANGED <<RUNNING_PROCESSES, cancelled_from, progress, build_vars>>

\* admin.update_paths_and_hw with a limit new_max_concurrent_jobs (at least 1)
\* that differs from the configured one: the configuration is saved, then
\* process_job_queue runs if the limit was increased; a decreased limit is
\* only reported
update_paths_and_hw(new_max_concurrent_jobs) ==
    /\ new_max_concurrent_jobs # max_concurrent_jobs
    /\ max_concurrent_jobs' = new_max_concurrent_jobs
    /\ IF new_max_concurrent_jobs > max_concurrent_jobs
       THEN /\ process_job_queue(threads, new_max_concurrent_jobs)
            /\ limit_change' = "increased"
       ELSE /\ UNCHANGED threads
            /\ limit_change' = "decreased"
    /\ UNCHANGED <<status, RUNNING_PROCESSES, cancelled_from, progress, build_vars>>

\* _run_job_logic up to its first commit: the job is fetched and its status
\* set to processing, whatever the status was; the thread returns if the
\* job's record is not found, or if the job's media record is not (media
\* tells whether job.media is found)
_run_job_logic_begin(r, media) ==
    /\ BagIn(r, threads)
    /\ r.pc = "spawned"
    /\ IF status[r.job] = "deleted" \/ ~media
       THEN /\ threads' = Moved(threads, r, [r EXCEPT !.pc = "done"])
            /\ UNCHANGED status
       ELSE /\ status' = [status EXCEPT ![r.job] = "processing"]
            /\ threads' = Moved(threads, r, [r EXCEPT !.pc = "setup"])
    /\ UNCHANGED <<max_concurrent_jobs, RUNNING_PROCESSES, cancelled_from, progress, build_vars>>
    /\ limit_change' = "none"

\* the capabilities a worker thread's transcode() call detects
Capabilities == {detect_capabilities({}), detect_capabilities({"h264_vaapi"})}

\* the codec of the input file's video stream, None if the probe yields none
InputCodecs == {NONE, "h264"}

\* how the call of transcode() in _run_job_logic ends up to the built
\* command.  name is the job's preset name: the thread reloads the
\* configuration, so what it finds under the name is an input, as are the
\* detected capabilities and the codec of the input's video stream.  The
\* output file's extension is preset.get('container', '.mp4')
effeff_transcode(name, capabilities, input_codec) ==
    transcode(<<<<PresetItem(name, PresetGet(name))>>>>, name, EmptyPreset,
              Or(PresetGet(name).container, ".mp4", NONE),
              capabilities, input_codec).kind

\* the ways that call can end
effeff_transcode_outcomes ==
    {effeff_transcode(name, capabilities, input_codec) :
        name \in PresetNames, capabilities \in Capabilities,
        input_codec \in InputCodecs}

\* _run_job_logic from the preset lookup to process.start() inside
\* transcode(), which ends with `outcome`.  An exception (ValueError,
\* NameError) or a failed Popen (spawned = FALSE) is caught by
\* `except Exception` (status failed, then process_job_queue); SystemExit is
\* not an Exception and ends the thread; otherwise the encoder runs.  If the
\* job's record has been deleted, the commit before the call raises, and so
\* does the commit of the handler, which ends the thread
_run_job_logic_transcode(r, outcome, spawned) ==
    /\ BagIn(r, threads)
    /\ r.pc = "setup"
    /\
        CASE status[r.job] = "deleted" \/ outcome = "SystemExit" ->
                /\ threads' = Moved(threads, r, [r EXCEPT !.pc = "dead"])
                /\ UNCHANGED status
          [] status[r.job] # "deleted"
             /\ (outcome \in {"ValueError", "KeyError", "NameError"}
                    \/ (outcome = "command" /\ ~spawned)) ->
                /\ status' = [status EXCEPT ![r.job] = "failed"]
                /\ threads' = Moved(threads, r, [r EXCEPT !.pc = "queue"])
          [] status[r.job] # "deleted" /\ outcome = "command" /\ spawned ->
                /\ threads' = Moved(threads, r, [r EXCEPT !.pc = "running"])
                /\ UNCHANGED status
    /\ UNCHANGED <<max_concurrent_jobs, RUNNING_PROCESSES, cancelled_from, progress, build_vars>>
    /\ limit_change' = "none"

\* the fractions the callback is invoked with, in hundredths
Fractions == {50, 100}

\* min(progress, 0.99), in hundredths
Capped(fraction) == IF fraction > 99 THEN 99 ELSE fraction

\* the progress callback of _run_job_logic, invoked by the reader of the
\* encoder's output with a fraction while the encoder runs: job.progress
\* becomes min(progress, 0.99) (for a deleted record the commit raises and
\* the callback logs the error)
progress_callback(r, fraction) ==
    /\ BagIn(r, threads)
    /\ r.pc = "running"
    /\ status[r.job] # "deleted"
    /\ progress' = [progress EXCEPT ![r.job] = Capped(fraction)]
    /\ UNCHANGED <<status, max_concurrent_jobs, threads, RUNNING_PROCESSES,
                   cancelled_from, build_vars>>
    /\ limit_change' = "none"

\* the encoder process of a thread exits with code rc and process.wait()
\* returns it; transcode() then invokes the callback with 1.0 if the code is
\* 0 and the duration is known
process_exit(r, rc, duration_known) ==
    /\ BagIn(r, threads)
    /\ r.pc = "running"
    /\ threads' = Moved(threads, r, [r EXCEPT !.pc = "exited", !.rc = rc])
    /\ progress' = IF rc = 0 /\ duration_known /\ status[r.job] # "deleted"
                   THEN [progress EXCEPT ![r.job] = Capped(100)]
                   ELSE progress
    /\ UNCHANGED <<status, max_concurrent_jobs, RUNNING_PROCESSES, cancelled_from, build_vars>>
    /\ limit_change' = "none"

\* _run_job_logic after transcode() has returned its CompletedProcess: the
\* result is not looked at and the status is set to completed.  If the job's
\* record has been deleted, the commit raises, and so does the commit of the
\* handler, which ends the thread
_run_job_logic_completion(r) ==
    /\ BagIn(r, threads)
    /\ r.pc = "exited"
    /\ IF status[r.job] = "deleted"
       THEN /\ threads' = Moved(threads, r, [r EXCEPT !.pc = "dead", !.rc = -1])
            /\ UNCHANGED <<status, progress>>
       ELSE /\ status' = [status EXCEPT ![r.job] = "completed"]
            /\ progress' = [progress EXCEPT ![r.job] = 100]
            /\ threads' = Moved(threads, r, [r EXCEPT !.pc = "queue", !.rc = -1])
    /\ UNCHANGED <<max_concurrent_jobs, RUNNING_PROCESSES, cancelled_from, build_vars>>
    /\ limit_change' = "none"

\* the worker thread's call of process_job_queue after it has committed
\* completed or failed; the thread then returns
_run_job_logic_trigger(r) ==
    /\ BagIn(r, threads)
    /\ r.pc = "queue"
    /\ process_job_queue(Moved(threads, r, [r EXCEPT !.pc = "done"]),
                         max_concurrent_jobs)
    /\ UNCHANGED <<status, max_concurrent_jobs, RUNNING_PROCESSES, cancelled_from, progress, build_vars>>
    /\ limit_change' = "none"

Next ==
    \/ \E j \in JobIds : transcode_request(j)
    \/ \E j \in JobIds : cancel_job(j)
    \/ call_process_job_queue
    \/ \E r \in ThreadRecords, media \in BOOLEAN : _run_job_logic_begin(r, media)
    \/ \E r \in ThreadRecords, outcome \in effeff_transcode_outcomes,
          spawned \in BOOLEAN : _run_job_logic_transcode(r, outcome, spawned)
    \/ \E r \in ThreadRecords, fraction \in Fractions : progress_callback(r, fraction)
    \/ \E r \in ThreadRecords, rc \in {0, 1}, duration_known \in BOOLEAN :
          process_exit(r, rc, duration_known)
    \/ \E r \in ThreadRecords : _run_job_logic_completion(r)
    \/ \E r \in ThreadRecords : _run_job_logic_trigger(r)

Spec == Init /\ [][Next]_vars

\* every started thread keeps running and every encoder process exits
Fairness ==
    \A j \in JobIds :
        /\ WF_vars(\E media \in BOOLEAN : _run_job_logic_begin(Thread(j, "spawned"), media))
        /\ WF_vars(\E outcome \in effeff_transcode_outcomes, spawned \in BOOLEAN :
                      _run_job_logic_transcode(Thread(j, "setup"), outcome, spawned))
        /\ WF_vars(\E rc \in {0, 1}, duration_known \in BOOLEAN :
                      process_exit(Thread(j, "running"), rc, duration_known))
        /\ \A rc \in {0, 1} :
              WF_vars(_run_job_logic_completion([job |-> j, pc |-> "exited", rc |-> rc]))
        /\ WF_vars(_run_job_logic_trigger(Thread(j, "queue")))

FairSpec == Spec /\ Fairness

(* ------------------- the queue with its administration ------------------ *)
\* the job queue together with the library page's batch creation of jobs,
\* job removal (api.remove_job_api) and the settings page's change of the
\* concurrency limit; the progress reports of the running encoders, which no
\* handler reads, are left out
AdminNext ==
    \/ \E j \in JobIds : transcode_request(j)
    \/ \E j \in JobIds : create_job(j)
    \/ \E j \in JobIds : cancel_job(j)
    \/ \E j \in JobIds : remove_job(j)
    \/ \E n \in 1..MaxCap : update_paths_and_hw(n)
    \/ call_process_job_queue
    \/ \E r \in ThreadRecords, media \in BOOLEAN : _run_job_logic_begin(r, media)
    \/ \E r \in ThreadRecords, outcome \in effeff_transcode_outcomes,
          spawned \in BOOLEAN : _run_job_logic_transcode(r, outcome, spawned)
    \/ \E r \in ThreadRecords, rc \in {0, 1}, duration_known \in BOOLEAN :
          process_exit(r, rc, duration_known)
    \/ \E r \in ThreadRecords : _run_job_logic_completion(r)
    \/ \E r \in ThreadRecords : _run_job_logic_trigger(r)

AdminSpec == Init /\ [][AdminNext]_vars

(* ------------------- one call of effeffmpeg.transcode() ----------------- *)
\* the preset configurations a call is tried with
PresetConfigs ==
    {[EmptyPreset EXCEPT !.container = c, !.codec = v, !.audio_codec = a,
                         !.crf = q, !.bitrate = b, !.smart_encode = s,
                         !.force_software = f] :
        c \in {NONE, ".mp4", ".avi"}, v \in {NONE, "h264", "vp9"},
        a \in {NONE, "aac"}, q \in {NoValue, Num(20)},
        b \in {NoValue, Bitrate(2, "M")}, s \in BOOLEAN, f \in BOOLEAN}

\* the presets dictionaries a call is tried with: the preset "p" and one more
\* preset, which is valid ("high") or not ("both")
PresetTables ==
    {<<PresetItem("p", p), PresetItem("other", PresetGet(o))>> :
        p \in PresetConfigs, o \in {"high", "both"}}

\* the keyword arguments a call is tried with
Arguments ==
    {[EmptyPreset EXCEPT !.crf = q, !.bitrate = b] :
        q \in {NoValue, Num(23)}, b \in {NoValue, Bitrate(4, "M")}}

\* the calls of transcode() that are tried: with no preset name, with the
\* name of a preset of the dictionary, and with a name that is not in it
Requests ==
    [presets_data : {<<t>> : t \in PresetTables},
     preset_name : {NONE, "p", "missing"},
     args : Arguments,
     output_ext : {".mp4", ".avi"},
     capabilities : Capabilities,
     input_codec : InputCodecs]

\* the call has been made and nothing has been done yet
Called ==
    [pc |-> "called", kind |-> "none", errors |-> <<>>, cmd |-> <<>>,
     options |-> EmptyPreset, video_encoder |-> NONE, target_video_codec |-> NONE]

\* the state after the call of transcode() with one of the requests; the job
\* queue is not involved
BuildInit ==
    /\ status = [j \in JobIds |-> "none"]
    /\ max_concurrent_jobs = 1
    /\ threads = EmptyBag
    /\ RUNNING_PROCESSES = {}
    /\ cancelled_from = [j \in JobIds |-> "none"]
    /\ limit_change = "none"
    /\ progress = [j \in JobIds |-> 0]
    /\ request \in Requests
    /\ build = Called
    /\ NotSupervised
    /\ NoService

\* the call ends with an exception (the command under construction is lost)
Raised(kind, errors) ==
    [build EXCEPT !.pc = "raised", !.kind = kind, !.errors = errors, !.cmd = <<>>]

\* transcode(), lines 1114-1180: the preset is looked up and validated and the
\* options are resolved
transcode_preset ==
    /\ build.pc = "called"
    /\ LET p == preset_lookup(request.presets_data, request.preset_name) IN
       build' = IF p.kind # "ok" THEN Raised(p.kind, p.errors)
                ELSE [build EXCEPT !.pc = "validate",
                                   !.options = resolved_options(request.args, p.config)]
    /\ UNCHANGED <<queue_vars, service_vars, request, supervisor_vars>>

\* generate_ffmpeg_command, lines 847-876: extension defaults and validation
generate_ffmpeg_command_validate ==
    /\ build.pc = "validate"
    /\ LET v == generate_validation(request.output_ext, build.options) IN
       build' = IF v.kind # "ok" THEN Raised(v.kind, v.errors)
                ELSE [build EXCEPT !.pc = "hardware"]
    /\ UNCHANGED <<queue_vars, service_vars, request, supervisor_vars>>

\* generate_ffmpeg_command, lines 885-914: global flags, encoder selection,
\* hardware initialisation and input arguments
generate_ffmpeg_command_hardware ==
    /\ build.pc = "hardware"
    /\ build' = [build EXCEPT
            !.pc = "video",
            !.video_encoder = video_encoder(request.capabilities, build.options.codec,
                                            build.options.force_software),
            !.cmd = <<"ffmpeg", "-y">>
                    \o hw_device_args(request.capabilities, build.options.codec,
                                      build.options.force_software)
                    \o <<"-i", "input">>]
    /\ UNCHANGED <<queue_vars, service_vars, request, supervisor_vars>>

\* generate_ffmpeg_command, lines 916-949: the probe and the video strategy
generate_ffmpeg_command_video ==
    /\ build.pc = "video"
    /\ build' = [build EXCEPT
            !.pc = "arguments",
            !.target_video_codec =
                IF is_video_copy(build.options, request.input_codec) THEN "copy"
                ELSE target_video_codec(request.capabilities, build.options.codec,
                                        build.options.force_software)]
    /\ UNCHANGED <<queue_vars, service_vars, request, supervisor_vars>>

\* generate_ffmpeg_command, lines 951-1041: the argument groups are assembled
\* and the command is returned
generate_ffmpeg_command_arguments ==
    /\ build.pc = "arguments"
    /\ LET g == generate_ffmpeg_command(request.output_ext, request.capabilities,
                                        build.options, request.input_codec) IN
       build' = IF g.kind # "command" THEN Raised(g.kind, g.errors)
                ELSE [build EXCEPT !.pc = "built", !.kind = "command", !.cmd = g.cmd]
    /\ UNCHANGED <<queue_vars, service_vars, request, supervisor_vars>>

\* transcode(), lines 1232-1235: TranscodeProcess(command, ...).start() starts
\* the encoder process (spawned), or Popen raises
TranscodeProcess_start(spawned) ==
    /\ build.pc = "built"
    /\ build' = IF spawned THEN [build EXCEPT !.pc = "started"]
                ELSE Raised("OSError", <<>>)
    /\ UNCHANGED <<queue_vars, service_vars, request, supervisor_vars>>

BuildNext ==
    \/ transcode_preset
    \/ generate_ffmpeg_command_validate
    \/ generate_ffmpeg_command_hardware
    \/ generate_ffmpeg_command_video
    \/ generate_ffmpeg_command_arguments
    \/ \E spawned \in BOOLEAN : TranscodeProcess_start(spawned)

BuildSpec == BuildInit /\ [][BuildNext]_vars

\* the calls of transcode() that the claims about the built command are
\* tried with: a valid preset "p" for an .mp4 in h264, with or without
\* smart_encode and the copy audio style, and keyword arguments for the
\* codec, the scale, the quality and the stream options
CommandRequests ==
    [presets_data : {<<<<PresetItem("p", [PresetGet("smart") EXCEPT
                                            !.smart_encode = s, !.audio_style = a])>>>> :
                        s \in BOOLEAN, a \in {NONE, "copy"}},
     preset_name : {NONE, "p"},
     args : {[EmptyPreset EXCEPT !.codec = v, !.scale = sc, !.crf = q, !.bitrate = b,
                                 !.smart_encode = s, !.preserve_all_audio = pa,
                                 !.preserve_subtitles = ps, !.remove_attachments = ra] :
                v \in {NONE, "h264"}, sc \in {NONE, "1080p", "720p"},
                q \in {NoValue, Num(23)}, b \in {NoValue, Bitrate(4, "M")},
                s \in BOOLEAN, pa \in BOOLEAN, ps \in BOOLEAN, ra \in BOOLEAN},
     output_ext : {".mp4", ".mkv"},
     capabilities : Capabilities,
     input_codec : {NONE, "h264", "hevc"}]

\* the state after the call of transcode() with one of these requests
CommandInit ==
    /\ status = [j \in JobIds |-> "none"]
    /\ max_concurrent_jobs = 1
    /\ threads = EmptyBag
    /\ RUNNING_PROCESSES = {}
    /\ cancelled_from = [j \in JobIds |-> "none"]
    /\ limit_change = "none"
    /\ progress = [j \in JobIds |-> 0]
    /\ request \in CommandRequests
    /\ build = Called
    /\ NotSupervised
    /\ NoService

CommandSpec == CommandInit /\ [][BuildNext]_vars

\* the steps of a call end as the function transcode() does
BuildAgrees ==
    build.pc \in {"raised", "built"} /\ build.kind # "OSError" =>
        Result(build.kind, build.errors, build.cmd)
          = transcode(request.presets_data, request.preset_name, request.args,
                      request.output_ext, request.capabilities, request.input_codec)

(* ------------- the steps of the process supervisor ------------------- *)
\* TranscodeProcess.__init__ (lines 446-468), called by transcode() with a
\* progress callback (mode "transcode": lines 1234-1264 follow) or for a
\* caller who gets the object back (non_blocking) and calls its methods.
\* The encoder's output and the callback's behaviour are inputs.
SupervisorInit ==
    /\ status = [j \in JobIds |-> "none"]
    /\ max_concurrent_jobs = 1
    /\ threads = EmptyBag
    /\ RUNNING_PROCESSES = {}
    /\ cancelled_from = [j \in JobIds |-> "none"]
    /\ limit_change = "none"
    /\ progress = [j \in JobIds |-> 0]
    /\ request = NoRequest
    /\ build = Idle
    /\ \E cb \in {NONE, "returns", "RuntimeError"} :
          transcode_process = [process |-> FALSE, started |-> FALSE,
                               finished |-> FALSE, returncode |-> NoValue,
                               _duration_seconds |-> NoValue,
                               progress_callback |-> cb]
    /\ \E out \in StdoutStreams, err \in StderrStreams :
          child = [state |-> "none", rc |-> NoValue, terminate |-> FALSE,
                   kill |-> FALSE, stdout |-> out, stderr |-> err]
    /\ pipes = [c \in Channels |-> <<>>]
    /\ readers = [c \in Channels |-> "none"]
    /\ buffers = [c \in Channels |-> <<>>]
    /\ \E mode \in {"transcode", "caller"} :
          client = [mode |-> mode,
                    pc |-> IF mode = "transcode" THEN "calling_start" ELSE "idle",
                    timeout |-> FALSE, in_terminate |-> FALSE, result |-> "none",
                    timed_out |-> FALSE]
    /\ calls = <<>>
    /\ NoService

\* a method returns with `result` to where it was called from
Return(result) ==
    [client EXCEPT
        !.pc = IF client.in_terminate THEN "terminate_check"
               ELSE IF client.mode = "transcode" THEN "final"
               ELSE "idle",
        !.timeout = FALSE,
        !.result = result]

\* the caller of a non-blocking transcode() calls a method of the object
call(method, timeout) ==
    /\ client.mode = "caller"
    /\ client.pc = "idle"
    /\ client' = [client EXCEPT !.pc = "calling_" \o method,
                                !.timeout = (method = "wait" /\ timeout),
                                !.result = "none"]
    /\ UNCHANGED <<queue_vars, service_vars, request, build, transcode_process, child, pipes,
                   readers, buffers, calls>>

\* start() without the check of self.started
start_again(probe, spawned) ==
    /\ client.pc = "calling_start"
    /\ IF ~spawned
       THEN /\ transcode_process' =
                   [transcode_process EXCEPT !._duration_seconds =
                       IF Known(@) THEN @ ELSE probe]
            /\ client' = [client EXCEPT
                            !.pc = IF client.mode = "transcode" THEN "returned"
                                   ELSE "idle",
                            !.result = "OSError"]
            /\ UNCHANGED <<child, readers>>
       ELSE /\ transcode_process' =
                   [transcode_process EXCEPT
                       !._duration_seconds = IF Known(@) THEN @ ELSE probe,
                       !.process = TRUE, !.started = TRUE]
            /\ child' = [child EXCEPT !.state = "running"]
            /\ readers' = [c \in Channels |-> "reading"]
            /\ client' = [client EXCEPT
                            !.pc = IF client.mode = "transcode" THEN "calling_wait"
                                   ELSE "idle",
                            !.result = "self"]
    /\ UNCHANGED <<queue_vars, service_vars, request, build, pipes, buffers, calls>>

\* start(), lines 634-711.  probe is the duration ffprobe or ffmpeg report
\* for the input (NoValue: none); spawned tells whether Popen succeeds
start(probe, spawned) ==
    /\ client.pc = "calling_start"
    /\ IF transcode_process.started
       THEN /\ client' = [client EXCEPT !.pc = "idle", !.result = "RuntimeError"]
            /\ UNCHANGED <<transcode_process, child, readers>>
       ELSE IF ~spawned
       THEN /\ transcode_process' =
                   [transcode_process EXCEPT !._duration_seconds =
                       IF Known(@) THEN @ ELSE probe]
            /\ client' = [client EXCEPT
                            !.pc = IF client.mode = "transcode" THEN "returned"
                                   ELSE "idle",
                            !.result = "OSError"]
            /\ UNCHANGED <<child, readers>>
       ELSE /\ transcode_process' =
                   [transcode_process EXCEPT
                       !._duration_seconds = IF Known(@) THEN @ ELSE probe,
                       !.process = TRUE, !.started = TRUE]
            /\ child' = [child EXCEPT !.state = "running"]
            /\ readers' = [c \in Channels |-> "reading"]
            /\ client' = [client EXCEPT
                            !.pc = IF client.mode = "transcode" THEN "calling_wait"
                                   ELSE "idle",
                            !.result = "self"]
    /\ UNCHANGED <<queue_vars, service_vars, request, build, pipes, buffers, calls>>

\* wait(), lines 727-731: the checks before the process is waited for
wait ==
    /\ client.pc = "calling_wait"
    /\ client' = IF ~transcode_process.started THEN Return("RuntimeError")
                 ELSE IF transcode_process.finished THEN Return("returncode")
                 ELSE [client EXCEPT !.pc = "process_wait"]
    /\ UNCHANGED <<queue_vars, service_vars, request, build, transcode_process, child, pipes,
                   readers, buffers, calls>>

\* wait(), lines 734-735: self.process.wait() returns the exit code
process_wait ==
    /\ client.pc = "process_wait"
    /\ child.state = "exited"
    /\ transcode_process' = [transcode_process EXCEPT !.returncode = child.rc,
                                                      !.finished = TRUE]
    /\ client' = [client EXCEPT !.pc = "join_stdout"]
    /\ UNCHANGED <<queue_vars, service_vars, request, build, child, pipes, readers, buffers, calls>>

\* wait() that marks the object finished when the timeout expires
process_wait_timeout_finishing ==
    /\ client.pc = "process_wait"
    /\ client.timeout
    /\ child.state # "exited"
    /\ client' = [Return("None") EXCEPT !.timed_out = TRUE]
    /\ transcode_process' = [transcode_process EXCEPT !.finished = TRUE]
    /\ UNCHANGED <<queue_vars, service_vars, request, build, child, pipes, readers, buffers, calls>>

\* wait(), lines 742-746: the timeout expires first and wait() returns None
process_wait_timeout ==
    /\ client.pc = "process_wait"
    /\ client.timeout
    /\ child.state # "exited"
    /\ client' = [Return("None") EXCEPT !.timed_out = TRUE]
    /\ UNCHANGED <<queue_vars, service_vars, request, build, transcode_process, child, pipes,
                   readers, buffers, calls>>

\* join_stdout without waiting for the reader thread to end
join_stdout_not_waiting ==
    /\ client.pc = "join_stdout"
    /\ client' = [client EXCEPT !.pc = "join_stderr"]
    /\ UNCHANGED <<queue_vars, service_vars, request, build, transcode_process, child, pipes,
                   readers, buffers, calls>>

\* wait(), line 738: self.stdout_thread.join()
join_stdout ==
    /\ client.pc = "join_stdout"
    /\ readers["stdout"] \in {"eof", "raised"}
    /\ client' = [client EXCEPT !.pc = "join_stderr"]
    /\ UNCHANGED <<queue_vars, service_vars, request, build, transcode_process, child, pipes,
                   readers, buffers, calls>>

\* wait(), lines 739-741: self.stderr_thread.join(); return self.returncode
join_stderr ==
    /\ client.pc = "join_stderr"
    /\ readers["stderr"] \in {"eof", "raised"}
    /\ client' = Return("returncode")
    /\ UNCHANGED <<queue_vars, service_vars, request, build, transcode_process, child, pipes,
                   readers, buffers, calls>>

\* terminate() without the kill after the grace period
terminate_check_without_kill ==
    /\ client.pc = "terminate_check"
    /\ client' = [client EXCEPT !.pc = "idle", !.in_terminate = FALSE,
                                !.result = "done"]
    /\ UNCHANGED <<queue_vars, service_vars, request, build, transcode_process, child, pipes,
                   readers, buffers, calls>>

\* terminate(), lines 750-752: nothing for an object without process or
\* finished; otherwise process.terminate() (which signals the child unless
\* it has exited) and self.wait(timeout=5), which finds started true and
\* finished false
terminate ==
    /\ client.pc = "calling_terminate"
    /\ IF transcode_process.process /\ ~transcode_process.finished
       THEN /\ child' = [child EXCEPT !.terminate = @ \/ child.state = "running"]
            /\ client' = [client EXCEPT !.pc = "process_wait", !.timeout = TRUE,
                                        !.in_terminate = TRUE]
       ELSE /\ client' = [client EXCEPT !.pc = "idle", !.result = "done"]
            /\ UNCHANGED child
    /\ UNCHANGED <<queue_vars, service_vars, request, build, transcode_process, pipes, readers,
                   buffers, calls>>

\* terminate(), lines 753-754: process.kill() if wait() has not found the
\* process exited; the killed child writes nothing more
terminate_check ==
    /\ client.pc = "terminate_check"
    /\ child' = IF ~transcode_process.finished /\ child.state = "running"
                THEN [child EXCEPT !.kill = TRUE, !.state = "exited", !.rc = Num(-9)]
                ELSE child
    /\ client' = [client EXCEPT !.pc = "idle", !.in_terminate = FALSE,
                                !.result = "done"]
    /\ UNCHANGED <<queue_vars, service_vars, request, build, transcode_process, pipes, readers,
                   buffers, calls>>

\* transcode(), lines 1246-1264: the final callback and the return
transcode_completed ==
    /\ client.pc = "final"
    /\ calls' = IF /\ transcode_process.returncode = Num(0)
                   /\ transcode_process.progress_callback # NONE
                   /\ Known(transcode_process._duration_seconds)
                THEN Append(calls, Report("completed", 0, 0, One))
                ELSE calls
    /\ client' = [client EXCEPT !.pc = "returned", !.result = "CompletedProcess"]
    /\ UNCHANGED <<queue_vars, service_vars, request, build, transcode_process, child, pipes,
                   readers, buffers>>

\* the encoder writes its next line to channel c
child_write(c) ==
    /\ child.state = "running"
    /\ child[c] # <<>>
    /\ pipes' = [pipes EXCEPT ![c] = Append(@, Head(child[c]))]
    /\ child' = [child EXCEPT ![c] = Tail(@)]
    /\ UNCHANGED <<queue_vars, service_vars, request, build, transcode_process, readers, buffers,
                   client, calls>>

\* the encoder exits: with 0 after it has written everything, with 1 at any
\* point, or with -15 when it has been asked to terminate
child_exit(rc) ==
    /\ child.state = "running"
    /\ rc = 0 => child.stdout = <<>> /\ child.stderr = <<>>
    /\ rc = -15 => child.terminate
    /\ child' = [child EXCEPT !.state = "exited", !.rc = Num(rc)]
    /\ UNCHANGED <<queue_vars, service_vars, request, build, transcode_process, pipes, readers,
                   buffers, client, calls>>

\* _read_output, lines 475-603, for one line of channel c: the line is
\* appended to the buffer, the duration is looked for, and the callback is
\* invoked; an exception of the callback that the path does not catch ends
\* the reader thread
_read_output(c) ==
    /\ readers[c] = "reading"
    /\ pipes[c] # <<>>
    /\ LET line == Head(pipes[c])
           duration_seconds ==
               duration_after(line, transcode_process._duration_seconds)
           made == reports(c, line, duration_seconds,
                           transcode_process.progress_callback)
       IN /\ pipes' = [pipes EXCEPT ![c] = Tail(@)]
          /\ buffers' = [buffers EXCEPT ![c] = Append(@, line)]
          /\ transcode_process' =
                [transcode_process EXCEPT !._duration_seconds = duration_seconds]
          /\ calls' = calls \o made
          /\ readers' = IF /\ made # <<>>
                           /\ transcode_process.progress_callback # "returns"
                           /\ transcode_process.progress_callback \notin handler(line)
                        THEN [readers EXCEPT ![c] = "raised"]
                        ELSE readers
    /\ UNCHANGED <<queue_vars, service_vars, request, build, child, client>>

\* _read_output, lines 476-478: readline() returns nothing once the encoder
\* has exited and the pipe is empty
_read_output_eof(c) ==
    /\ readers[c] = "reading"
    /\ pipes[c] = <<>>
    /\ child.state = "exited"
    /\ readers' = [readers EXCEPT ![c] = "eof"]
    /\ UNCHANGED <<queue_vars, service_vars, request, build, transcode_process, child, pipes,
                   buffers, client, calls>>

SupervisorNext ==
    \/ \E method \in {"start", "wait", "terminate"}, timeout \in BOOLEAN :
          call(method, timeout)
    \/ \E probe \in {NoValue, Num(120)}, spawned \in BOOLEAN : start(probe, spawned)
    \/ wait
    \/ process_wait
    \/ process_wait_timeout
    \/ join_stdout
    \/ join_stderr
    \/ terminate
    \/ terminate_check
    \/ transcode_completed
    \/ \E c \in Channels : child_write(c)
    \/ \E rc \in {0, 1, -15} : child_exit(rc)
    \/ \E c \in Channels : _read_output(c)
    \/ \E c \in Channels : _read_output_eof(c)

SupervisorSpec == SupervisorInit /\ [][SupervisorNext]_vars

\* the supervisor's variables keep their shape
SupervisorTypeOK ==
    /\ transcode_process.returncode \in {NoValue, Num(0), Num(1), Num(-15), Num(-9)}
    /\ child.state \in {"none", "running", "exited"}
    /\ readers \in [Channels -> {"none", "reading", "eof", "raised"}]
    /\ client.pc \in ClientPcs
    /\ Len(calls) <= MaxLines + 2

(* ---------------- the configuration file and its handlers -------------- *)
\* JSON values: null, a string, and an object as the sequence of its
\* (key, value) members in insertion order
Null == <<"null">>
Str(string) == <<"string", string>>
Obj(members) == <<"object", members>>

\* `key in value` for a dict
HasKey(value, key) == \E i \in DOMAIN value[2] : value[2][i][1] = key
\* value[key] and value.get(key)
Get(value, key) ==
    IF HasKey(value, key)
    THEN value[2][CHOOSE i \in DOMAIN value[2] : value[2][i][1] = key][2]
    ELSE Null
\* the document detect_capabilities returns, as the JSON value that the
\* settings page posts back
capabilities_json(capabilities) ==
    LET RECURSIVE Members(_, _)
        Members(f, S) ==
            IF S = {} THEN <<>>
            ELSE LET k == CHOOSE x \in S : TRUE
                 IN <<<<k, Str(f[k])>>>> \o Members(f, S \ {k})
    IN
    Obj(<<<<"hwaccel", IF capabilities.hwaccel = NONE THEN Null
                       ELSE Str(capabilities.hwaccel)>>,
          <<"device", Str(capabilities.device)>>,
          <<"encoders", Obj(Members(capabilities.encoders,
                                    DOMAIN capabilities.encoders))>>,
          <<"fallback_encoders", Obj(Members(capabilities.fallback_encoders,
                                             DOMAIN capabilities.fallback_encoders))>>>>)

\* json.dump without the members whose value is None
RECURSIVE dump_skipping_null(_)
dump_skipping_null(value) ==
    LET RECURSIVE members(_)
        members(m) ==
            IF m = <<>> THEN <<>>
            ELSE IF Head(m)[2] = Null THEN members(Tail(m))
            ELSE <<<<"string", Head(m)[1]>>, <<":">>>> \o dump_skipping_null(Head(m)[2])
                 \o (IF Len(m) > 1 THEN <<<<",">>>> ELSE <<>>)
                 \o members(Tail(m))
    IN CASE value[1] = "null" -> <<<<"null">>>>
         [] value[1] = "string" -> <<<<"string", value[2]>>>>
         [] value[1] = "object" -> <<<<"{">>>> \o members(value[2]) \o <<<<"}">>>>

\* json.dump: the text of a value, as its sequence of tokens (punctuation,
\* null, and quoted strings)
RECURSIVE dump(_)
dump(value) ==
    LET RECURSIVE members(_)
        members(m) ==
            IF m = <<>> THEN <<>>
            ELSE <<<<"string", Head(m)[1]>>, <<":">>>> \o dump(Head(m)[2])
                 \o (IF Len(m) > 1 THEN <<<<",">>>> ELSE <<>>)
                 \o members(Tail(m))
    IN CASE value[1] = "null" -> <<<<"null">>>>
         [] value[1] = "string" -> <<<<"string", value[2]>>>>
         [] value[1] = "object" -> <<<<"{">>>> \o members(value[2]) \o <<<<"}">>>>

\* the parser of json.load: the value that the text starts with, and the
\* rest of the text (json.load returns the value of the whole text)
RECURSIVE parse_value(_), parse_members(_, _)
parse_value(text) ==
    CASE Head(text) = <<"null">> -> [value |-> Null, rest |-> Tail(text)]
      [] Head(text)[1] = "string" ->
            [value |-> Str(Head(text)[2]), rest |-> Tail(text)]
      [] Head(text) = <<"{">> -> parse_members(Tail(text), <<>>)
parse_members(text, members) ==
    CASE Head(text) = <<"}">> -> [value |-> Obj(members), rest |-> Tail(text)]
      [] Head(text) = <<",">> -> parse_members(Tail(text), members)
      [] OTHER ->
            LET v == parse_value(Tail(Tail(text)))
            IN parse_members(v.rest, Append(members, <<Head(text)[2], v.value>>))

\* default_presets of load_config (the keys of a preset that the model holds)
default_presets ==
    <<PresetItem("high",
        [EmptyPreset EXCEPT !.codec = "hevc", !.scale = "1080p", !.container = ".mkv",
                            !.audio_codec = "aac", !.audio_bitrate = Bitrate(192, "k"),
                            !.crf = Num(20), !.audio_style = "transcode",
                            !.subtitle_style = "copy"]),
      PresetItem("medium",
        [EmptyPreset EXCEPT !.codec = "hevc", !.scale = "720p", !.container = ".mkv",
                            !.audio_codec = "aac", !.audio_bitrate = Bitrate(128, "k"),
                            !.crf = Num(24), !.audio_style = "transcode",
                            !.subtitle_style = "copy"]),
      PresetItem("low",
        [EmptyPreset EXCEPT !.codec = "hevc", !.scale = "480p", !.container = ".mkv",
                            !.audio_codec = "aac", !.audio_bitrate = Bitrate(96, "k"),
                            !.crf = Num(28), !.audio_style = "transcode",
                            !.subtitle_style = "copy"])>>

\* load_config: the Config object read from the file; the default presets
\* take the place of a presets entry that is missing or empty
load_config(file) ==
    [presets |-> IF file.presets = <<>> THEN default_presets ELSE file.presets,
     hw_capabilities |-> parse_value(file.hw_capabilities).value]

\* save_config: the file written from a Config object
save_config(config) ==
    [presets |-> config.presets, hw_capabilities |-> dump(config.hw_capabilities)]

\* two presets dictionaries are equal: the same names with the same configs
SamePresets(a, b) ==
    /\ Keys(a) = Keys(b)
    /\ \A name \in Keys(a) : Item(a, name) = Item(b, name)

\* what a handler answered
Response(handler_name, merge_mode, presets_data, document, before, outcome) ==
    [handler |-> handler_name, merge_mode |-> merge_mode, presets |-> presets_data,
     document |-> document, before |-> before, outcome |-> outcome]

\* import_presets whose merge mode lets the imported presets win a conflict
import_presets_merge_overwriting(presets_data, merge_mode) ==
    /\ LET config == load_config(config_file)
           MergedOverwriting(existing, imported) ==
               [i \in DOMAIN existing |->
                   IF existing[i].name \in Keys(imported)
                   THEN PresetItem(existing[i].name, Item(imported, existing[i].name))
                   ELSE existing[i]]
               \o SelectSeq(imported, LAMBDA item : item.name \notin Keys(existing)) IN
       IF validate_presets_data(presets_data) # <<>>
       THEN /\ UNCHANGED config_file
            /\ response' = Response("import_presets", merge_mode, presets_data, Null,
                                    config.presets, "error")
       ELSE /\ config_file' = save_config(
                   [config EXCEPT !.presets =
                       IF merge_mode = "merge"
                       THEN MergedOverwriting(config.presets, presets_data)
                       ELSE presets_data])
            /\ response' = Response("import_presets", merge_mode, presets_data, Null,
                                    config.presets, "saved")
    /\ UNCHANGED <<queue_vars, request, build, supervisor_vars,
                   _scheduler_thread, _stop_event, loops>>

\* admin.import_presets for an uploaded file that holds presets_data;
\* merge_mode is the form field (None: absent).  The presets are validated;
\* if they are valid, the configuration is loaded, the presets are merged
\* into config.presets (merge) or take its place (any other mode), and the
\* configuration is saved
import_presets(presets_data, merge_mode) ==
    /\ LET config == load_config(config_file) IN
       IF validate_presets_data(presets_data) # <<>>
       THEN /\ UNCHANGED config_file
            /\ response' = Response("import_presets", merge_mode, presets_data, Null,
                                    config.presets, "error")
       ELSE /\ config_file' = save_config(
                   [config EXCEPT !.presets =
                       IF merge_mode = "merge"
                       THEN config.presets
                            \o SelectSeq(presets_data,
                                  LAMBDA item : item.name \notin Keys(config.presets))
                       ELSE presets_data])
            /\ response' = Response("import_presets", merge_mode, presets_data, Null,
                                    config.presets, "saved")
    /\ UNCHANGED <<queue_vars, request, build, supervisor_vars,
                   _scheduler_thread, _stop_event, loops>>

\* admin.delete_preset
delete_preset(name) ==
    /\ LET config == load_config(config_file) IN
       IF name \notin Keys(config.presets)
       THEN /\ UNCHANGED config_file
            /\ response' = Response("delete_preset", NONE, <<>>, Null, config.presets,
                                    "not found")
       ELSE /\ config_file' =
                   save_config([config EXCEPT !.presets =
                       SelectSeq(config.presets, LAMBDA item : item.name # name)])
            /\ response' = Response("delete_preset", NONE, <<>>, Null, config.presets,
                                    "saved")
    /\ UNCHANGED <<queue_vars, request, build, supervisor_vars,
                   _scheduler_thread, _stop_event, loops>>

\* admin.save_hw_capabilities for the posted document: the answer is 400
\* unless the document is true (not None, not an empty string or dict), is
\* a dictionary with the four required keys, and its encoders and
\* fallback_encoders are dictionaries; then the configuration is loaded, the
\* document is stored in it, and the configuration is saved
save_hw_capabilities(capabilities_json_) ==
    /\ LET config == load_config(config_file)
           accepted ==
               /\ capabilities_json_ \notin {Null, Str(""), Obj(<<>>)}
               /\ capabilities_json_[1] = "object"
               /\ \A key \in {"hwaccel", "device", "encoders", "fallback_encoders"} :
                     HasKey(capabilities_json_, key)
               /\ Get(capabilities_json_, "encoders")[1] = "object"
               /\ Get(capabilities_json_, "fallback_encoders")[1] = "object" IN
       IF ~accepted
       THEN /\ UNCHANGED config_file
            /\ response' = Response("save_hw_capabilities", NONE, <<>>,
                                    capabilities_json_, config.presets, "400")
       ELSE /\ config_file' =
                   save_config([config EXCEPT !.hw_capabilities = capabilities_json_])
            /\ response' = Response("save_hw_capabilities", NONE, <<>>,
                                    capabilities_json_, config.presets, "saved")
    /\ UNCHANGED <<queue_vars, request, build, supervisor_vars,
                   _scheduler_thread, _stop_event, loops>>

\* a fresh installation: no configuration file, no request handled so far
ConfigInit ==
    /\ status = [j \in JobIds |-> "none"]
    /\ max_concurrent_jobs = 1
    /\ threads = EmptyBag
    /\ RUNNING_PROCESSES = {}
    /\ cancelled_from = [j \in JobIds |-> "none"]
    /\ limit_change = "none"
    /\ progress = [j \in JobIds |-> 0]
    /\ request = NoRequest
    /\ build = Idle
    /\ NotSupervised
    /\ config_file = [presets |-> <<>>, hw_capabilities |-> dump(Null)]
    /\ response = Response("none", NONE, <<>>, Null, <<>>, "none")
    /\ _scheduler_thread = 0 /\ _stop_event = FALSE /\ loops = NoValue

\* the presets dictionaries that are imported: empty, a new preset, a preset
\* under an existing name, both, and one with a preset that is not valid;
\* the capabilities documents that are posted: what detection returns, no
\* document, a string, documents without the required keys, and a document
\* whose encoders are not a dictionary
ConfigNext ==
    \/ \E presets_data \in
             {<<>>,
              <<PresetItem("new", PresetGet("smart"))>>,
              <<PresetItem("high", PresetGet("smart"))>>,
              <<PresetItem("high", PresetGet("smart")), PresetItem("new", PresetGet("avi"))>>,
              <<PresetItem("new", PresetGet("smart")), PresetItem("bad", PresetGet("both"))>>},
          merge_mode \in {NONE, "merge", "overwrite"} :
          import_presets(presets_data, merge_mode)
    \/ \E name \in {"high", "medium", "new"} : delete_preset(name)
    \/ \E capabilities_json_ \in
             {capabilities_json(detect_capabilities(supported)) :
                 supported \in SUBSET {"h264_vaapi", "hevc_vaapi"}}
             \cup {Null, Obj(<<>>), Str("vaapi"),
                   Obj(<<<<"hwaccel", Str("vaapi")>>>>),
                   Obj(<<<<"hwaccel", Null>>, <<"device", Null>>,
                         <<"encoders", Str("none")>>, <<"fallback_encoders", Obj(<<>>)>>>>),
                   Obj(<<<<"hwaccel", Null>>, <<"device", Null>>,
                         <<"encoders", Obj(<<>>)>>, <<"fallback_encoders", Obj(<<>>)>>>>)} :
          save_hw_capabilities(capabilities_json_)

ConfigSpec == ConfigInit /\ [][ConfigNext]_vars

(* --------------------------- the scheduler ----------------------------- *)
\* scheduler threads ever started
MaxLoops == 3

\* Thread.is_alive(): the loop of thread t has not returned
is_alive(t) == loops[t] # "ended"

\* start_scheduler: unless the referenced thread is alive, the stop event is
\* cleared and a new thread is started, which begins with its startup delay
start_scheduler ==
    /\ Len(loops) < MaxLoops
    /\ IF _scheduler_thread = 0 \/ ~is_alive(_scheduler_thread)
       THEN /\ _stop_event' = FALSE
            /\ loops' = Append(loops, "startup")
            /\ _scheduler_thread' = Len(loops) + 1
       ELSE UNCHANGED <<_scheduler_thread, _stop_event, loops>>
    /\ UNCHANGED <<queue_vars, config_file, response, request, build, supervisor_vars>>

\* stop_scheduler: if a thread is referenced, the stop event is set, the
\* thread is joined for at most two seconds, and the reference is dropped.
\* When join(timeout=2) returns the loop has returned, or it is still in its
\* startup delay of 10 seconds or in the synchronous scan of an iteration,
\* which do not look at the event
stop_scheduler(joined) ==
    /\ IF _scheduler_thread # 0
       THEN /\ _stop_event' = TRUE
            /\ joined \in {"ended"} \cup ({loops[_scheduler_thread]} \cap {"startup", "iteration"})
            /\ loops' = [loops EXCEPT ![_scheduler_thread] = joined]
            /\ _scheduler_thread' = 0
       ELSE /\ joined = "ended"
            /\ UNCHANGED <<_scheduler_thread, _stop_event, loops>>
    /\ UNCHANGED <<queue_vars, config_file, response, request, build, supervisor_vars>>

\* _scheduler_loop of thread t: the startup delay is over and the loop
\* condition is tested for the first time
loop_initialized(t) ==
    /\ loops[t] = "startup"
    /\ loops' = [loops EXCEPT ![t] = IF _stop_event THEN "ended" ELSE "iteration"]
    /\ UNCHANGED <<_scheduler_thread, _stop_event>>
    /\ UNCHANGED <<queue_vars, config_file, response, request, build, supervisor_vars>>

\* _scheduler_loop of thread t: the body of an iteration (scan and
\* auto-squish) is done and the sleep loop begins
loop_iteration(t) ==
    /\ loops[t] = "iteration"
    /\ loops' = [loops EXCEPT ![t] = "sleep"]
    /\ UNCHANGED <<_scheduler_thread, _stop_event>>
    /\ UNCHANGED <<queue_vars, config_file, response, request, build, supervisor_vars>>

\* _scheduler_loop of thread t: the sleep loop ends, after 60 seconds or at
\* the first second at which the stop event is set, and the loop condition
\* is tested
loop_sleep(t) ==
    /\ loops[t] = "sleep"
    /\ loops' = [loops EXCEPT ![t] = IF _stop_event THEN "ended" ELSE "iteration"]
    /\ UNCHANGED <<_scheduler_thread, _stop_event>>
    /\ UNCHANGED <<queue_vars, config_file, response, request, build, supervisor_vars>>

\* the module after import: no thread, the event clear
SchedulerInit ==
    /\ status = [j \in JobIds |-> "none"]
    /\ max_concurrent_jobs = 1
    /\ threads = EmptyBag
    /\ RUNNING_PROCESSES = {}
    /\ cancelled_from = [j \in JobIds |-> "none"]
    /\ limit_change = "none"
    /\ progress = [j \in JobIds |-> 0]
    /\ request = NoRequest
    /\ build = Idle
    /\ NotSupervised
    /\ config_file = NoValue /\ response = NoValue
    /\ _scheduler_thread = 0 /\ _stop_event = FALSE /\ loops = NoValue

SchedulerNext ==
    \/ start_scheduler
    \/ \E joined \in {"ended", "startup", "iteration"} : stop_scheduler(joined)
    \/ \E t \in DOMAIN loops : loop_initialized(t)
    \/ \E t \in DOMAIN loops : loop_iteration(t)
    \/ \E t \in DOMAIN loops : loop_sleep(t)

SchedulerSpec == SchedulerInit /\ [][SchedulerNext]_vars

(* ------------------------------- claims -------------------------------- *)
\* C1: the number of jobs whose status is processing never exceeds
\* max_concurrent_jobs.
ProcessingWithinLimit == get_running_job_count <= max_concurrent_jobs

\* C2: no job is admitted twice: at most one worker thread is ever started
\* for any job id.
AdmittedAtMostOnce == \A j \in JobIds : NumThreadsOf(j) <= 1

\* C3: with max_concurrent_jobs = 1 and jobs A, B, C = 1, 2, 3 submitted in
\* this order, B and C do not leave pending (other than by being cancelled)
\* while A is not terminal, and C is not processing while B is pending.
FifoWithLimitOne ==
    max_concurrent_jobs = 1 =>
        /\ status[1] \notin Terminal =>
              \A j \in {2, 3} : status[j] \in {"none", "pending", "cancelled"}
        /\ status[2] = "pending" => status[3] # "processing"

\* C4: once a job's status is completed, failed or cancelled, no step changes
\* it.
TerminalStatusIsFinal ==
    [][\A j \in JobIds : status[j] \in Terminal => status'[j] = status[j]]_vars

\* C5: after cancel_job has returned True for a processing job, the job's
\* status is cancelled once all its worker threads have ended.
CancelProcessingEndsCancelled ==
    \A j \in JobIds :
        (cancelled_from[j] = "processing" /\ ThreadsAt(j, ThreadPcs) \subseteq
            {r \in ThreadRecords : r.pc \in {"done", "dead"}})
        => status[j] = "cancelled"

\* C6: the step of cancel_job that cancels a pending job leaves the job
\* cancelled, and from then on no encoder process exists for the job.
CancelPendingNeverSpawns ==
    /\ [][\A j \in JobIds :
            (cancelled_from'[j] = "pending" /\ status[j] = "pending"
               /\ status'[j] # "pending")
            => status'[j] = "cancelled"]_vars
    /\ [](\A j \in JobIds :
            cancelled_from[j] = "pending" => ThreadsAt(j, {"running", "exited"}) = {})

\* C7: a worker thread whose encoder exited with a nonzero code sets its job
\* to failed, and a worker thread sets its job to completed only after exit
\* code 0.
NonzeroExitFails ==
    [][\A r \in ThreadRecords :
          (r.pc = "exited" /\ BagIn(r, threads)
             /\ CopiesIn(r, threads') < CopiesIn(r, threads))
          => /\ r.rc # 0 => status'[r.job] = "failed"
             /\ status'[r.job] = "completed" => r.rc = 0]_vars

\* C8: the step of cancel_job that cancels a processing job leaves no encoder
\* process of that job running, and the registry holds a handle for a job
\* only while the job is processing.
CancelStopsProcess ==
    /\ [][\A j \in JobIds :
            (status[j] = "processing" /\ status'[j] = "cancelled")
            => \A r \in ThreadRecords :
                  (r.job = j /\ r.pc = "running") => ~BagIn(r, threads')]_vars
    /\ [](\A j \in RUNNING_PROCESSES : status[j] = "processing")

\* C9: whenever some job is terminal, a job is pending and a slot is free, an
\* admission is under way: some worker thread has been started and has not
\* ended (it will set its job to processing or call process_job_queue).
RescanAfterTerminal ==
    ((\E j \in JobIds : status[j] \in Terminal)
        /\ PendingSet # {}
        /\ get_running_job_count < max_concurrent_jobs)
    => Alive # {}

\* C10: every job that is processing eventually reaches a terminal status.
ProcessingEventuallyEnds ==
    \A j \in JobIds : (status[j] = "processing") ~> (status[j] \in Terminal)

\* C11: a job record is deleted only by remove_job, only while the job's
\* status is completed, failed or cancelled, and no other record changes in
\* that step; remove_job for such a job deletes the record (it returns True),
\* and for a pending or processing job, or an id that has no record, it
\* changes no job record (it returns False).
RemoveOnlyTerminal ==
    [][\A j \in JobIds :
          /\ (status'[j] = "deleted" /\ status[j] # "deleted")
                => /\ status[j] \in Terminal
                   /\ \A i \in JobIds \ {j} : status'[i] = status[i]
          /\ remove_job(j)
                => IF status[j] \in Terminal
                   THEN status'[j] = "deleted"
                   ELSE status' = status]_vars

\* a job's record has been deleted while another job is pending or processing
RemovedOneKeptActive ==
    \E j, k \in JobIds :
        status[j] = "deleted" /\ status[k] \in {"pending", "processing"}

\* the number of worker threads in the bag b
NumThreads(b) == BagCardinality(b)

\* C12: a step that decreases max_concurrent_jobs changes no job's status and
\* no worker thread, and no step taken while the processing count is at or
\* above the limit in force starts a worker thread.
DecreaseKeepsRunningJobs ==
    [][/\ max_concurrent_jobs' < max_concurrent_jobs
            => status' = status /\ threads' = threads
       /\ get_running_job_count >= max_concurrent_jobs'
            => NumThreads(threads') <= NumThreads(threads)]_vars

\* the settings handler has just decreased the limit below the number of
\* processing jobs, which are all still processing, and a job is pending
DecreasedBelowRunning ==
    /\ limit_change = "decreased"
    /\ get_running_job_count > max_concurrent_jobs
    /\ PendingSet # {}

\* C13: a step that increases max_concurrent_jobs starts one worker thread for
\* each of the first k pending jobs in creation order, where k is the new
\* limit minus the processing count, and changes nothing else.
IncreaseAdmitsFreeSlots ==
    [][max_concurrent_jobs' > max_concurrent_jobs =>
        LET slots == max_concurrent_jobs' - get_running_job_count
            admitted == {j \in PendingSet :
                            Cardinality({i \in PendingSet : i < j}) < slots}
        IN /\ status' = status
           /\ \A r \in ThreadRecords :
                 CopiesIn(r, threads') =
                    CopiesIn(r, threads)
                      + (IF r.pc = "spawned" /\ r.rc = -1 /\ r.job \in admitted
                         THEN 1 ELSE 0)]_vars

\* the settings handler has just increased the limit while a slot was free
\* under the new limit: its scan has started the only thread of the first
\* pending job, and a later pending job has no thread
IncreasedAndAdmitted ==
    /\ limit_change = "increased"
    /\ get_running_job_count < max_concurrent_jobs
    /\ \E j, k \in PendingSet :
          /\ j < k
          /\ \A i \in PendingSet : j <= i
          /\ NumThreadsOf(j) = 1
          /\ ThreadsAt(j, {"spawned"}) # {}
          /\ NumThreadsOf(k) = 0

(* the claims about one call of transcode() are stated over BuildSpec *)
\* the presets dictionary of the call
Table == request.presets_data[1]

\* the preset the call names, {} if it names none or one that is not there
NamedPreset ==
    IF request.preset_name \in Keys(Table) THEN Item(Table, request.preset_name)
    ELSE EmptyPreset

\* the call names no preset, or one of the dictionary
PresetFound == request.preset_name = NONE \/ request.preset_name \in Keys(Table)

\* the options the call asks for: its keyword arguments over the values of
\* the preset it names
Requested == resolved_options(request.args, NamedPreset)

\* the call asks for both a crf and a bitrate
CrfAndBitrateSet ==
    PresetFound /\ Requested.crf # NoValue /\ Requested.bitrate # NoValue

\* the elements of a sequence
Range(s) == {s[i] : i \in DOMAIN s}

\* C14: a call that asks for both crf and bitrate does not get past
\* validation, so no encoder process is started, and it ends with a
\* validation failure (ValueError).
BothSetRejectedByValidation ==
    CrfAndBitrateSet =>
        /\ build.pc \in {"called", "validate", "raised"}
        /\ build.pc = "raised" => build.kind = "ValueError"

\* the violation "Invalid video codec 'vp9' for '.mp4'. Valid: h264, hevc" is
\* among errors
NamesVp9ForMp4(errors) ==
    \E i \in DOMAIN errors :
        /\ errors[i].rule = "video_codec"
        /\ errors[i].got = <<"vp9", ".mp4">>
        /\ errors[i].valid = {"h264", "hevc"}

\* C15: a preset with container .mp4 and codec vp9 does not pass preset
\* validation, and options with codec vp9 for an .mp4 output do not pass
\* command building; both end with a validation failure that names vp9 and
\* lists h264 and hevc.
Vp9RejectedForMp4 ==
    /\ (/\ request.preset_name = "p"
        /\ NamedPreset.container = ".mp4"
        /\ NamedPreset.codec = "vp9"
        /\ build.pc # "called")
        => /\ build.pc = "raised"
           /\ build.kind = "ValueError"
           /\ NamesVp9ForMp4(build.errors)
    /\ (/\ build.options.codec = "vp9"
        /\ request.output_ext = ".mp4"
        /\ build.pc \notin {"called", "validate"})
        => /\ build.pc = "raised"
           /\ build.kind = "ValueError"
           /\ NamesVp9ForMp4(build.errors)

\* C16: when the named preset violates both a quality rule and a codec rule,
\* preset validation fails with the violations of both; when the resolved
\* options violate both for the output's container, command building fails
\* with the violations of both.
AllViolationsReported ==
    /\ LET p == NamedPreset
           quality == validate_quality_options(p.crf, p.bitrate, p.audio_codec,
                                               p.audio_bitrate, p.flac_compression)
           codecs == validate_codecs(p.container, p.codec, p.audio_codec)
       IN (/\ request.preset_name = "p"
           /\ build.pc # "called"
           /\ p.container # NONE /\ p.codec # NONE /\ p.audio_codec # NONE
           /\ quality # <<>>
           /\ codecs # <<>>)
          => /\ build.pc = "raised"
             /\ build.kind = "ValueError"
             /\ Rules(quality) \cup Rules(codecs) \subseteq Rules(build.errors)
    /\ LET o == build.options
           d == infer_defaults_from_extension(request.output_ext)
           video == Or(o.codec, d[2], NONE)
           audio == Or(o.audio_codec, d[3], NONE)
           quality == validate_quality_options(o.crf, o.bitrate, audio,
                                               o.audio_bitrate, o.flac_compression)
           codecs == validate_codecs(d[1], video, audio)
       IN (/\ request.output_ext \in DOMAIN defaults
           /\ build.pc \notin {"called", "validate"}
           /\ quality # <<>>
           /\ codecs # <<>>)
          => /\ build.pc = "raised"
             /\ build.kind = "ValueError"
             /\ Rules(quality) \cup Rules(codecs) \subseteq Rules(build.errors)

\* C17: a worker thread leaves the build either with the encoder started or,
\* when the build fails (an unsupported output extension included), with its
\* job set to failed and on its way to process_job_queue.
UnsupportedExtensionFailsJob ==
    [][\A r \in ThreadRecords :
          (r.pc = "setup" /\ BagIn(r, threads)
             /\ CopiesIn(r, threads') < CopiesIn(r, threads))
          => \/ CopiesIn([r EXCEPT !.pc = "running"], threads')
                  > CopiesIn([r EXCEPT !.pc = "running"], threads)
             \/ /\ status'[r.job] = "failed"
                /\ CopiesIn([r EXCEPT !.pc = "queue"], threads')
                     > CopiesIn([r EXCEPT !.pc = "queue"], threads)]_vars

\* C18 (as claimed): a call that names a preset that is not in the dictionary
\* ends with a lookup failure (KeyError), whatever the other presets are.
MissingPresetRaisesLookupFailure ==
    (request.preset_name = "missing" /\ build.pc # "called")
    => build.pc = "raised" /\ build.kind = "KeyError"

\* C18 (amended): a call that names a preset that is not in the dictionary
\* starts no process; it ends with a lookup failure (KeyError) if every
\* preset of the dictionary passes preset validation, and otherwise with the
\* validation failure of the first preset that does not.
MissingPresetRaisesAfterTableValidation ==
    (request.preset_name = "missing" /\ build.pc # "called")
    => /\ build.pc = "raised"
       /\ IF validate_presets_data(Table) = <<>>
          THEN build.kind = "KeyError"
          ELSE /\ build.kind = "ValueError"
               /\ Rules(build.errors) = Rules(validate_presets_data(Table))

\* a call that names a preset that is not in the dictionary has ended with
\* a lookup failure
MissingPresetRaised ==
    /\ request.preset_name = "missing"
    /\ build.pc = "raised"
    /\ build.kind = "KeyError"

\* C19: when the output extension is supported, generate_ffmpeg_command
\* raises nothing but a validation failure (KeyError and OSError are raised
\* by transcode() before and after it).
OnlyValidationFailures ==
    (/\ request.output_ext \in DOMAIN defaults
     /\ build.pc = "raised"
     /\ build.kind \notin {"KeyError", "OSError"})
    => build.kind = "ValueError"

\* C20: once the video strategy of an encode (not a stream copy) is decided:
\* if hardware is not forced off and the capabilities' encoders hold a
\* hardware encoder for the requested codec, that encoder is the target and
\* the command holds the hardware initialisation arguments; otherwise the
\* target is a software fallback encoder and the command holds none.
HardwareEncoderSelected ==
    LET capabilities == request.capabilities
        codec == build.options.codec
    IN (build.pc = "arguments" /\ build.target_video_codec # "copy") =>
          IF ~build.options.force_software /\ codec \in DOMAIN capabilities.encoders
          THEN /\ build.target_video_codec = capabilities.encoders[codec]
               /\ "-init_hw_device" \in Range(build.cmd)
          ELSE /\ build.target_video_codec \in Range(capabilities.fallback_encoders)
               /\ "-init_hw_device" \notin Range(build.cmd)

(* the claims about the built command are stated over CommandSpec *)
\* the command has been built (and is kept when the process is started)
Built == build.pc \in {"built", "started"}

\* the stream specifiers the command maps explicitly
MapsOf(cmd) == {cmd[i + 1] : i \in {k \in 1..(Len(cmd) - 1) : cmd[k] = "-map"}}

\* C21: in every built command, -b:v and -crf appear only when the video is
\* encoded (the video codec is not copy), and -crf only when no hardware
\* encoder was chosen.
QualityArgumentsOnlyWhenEncoding ==
    Built =>
        /\ ("-b:v" \in Range(build.cmd) \/ "-crf" \in Range(build.cmd))
              => /\ build.target_video_codec # "copy"
                 /\ "copy" \notin {build.cmd[i + 1] :
                        i \in {k \in 1..(Len(build.cmd) - 1) : build.cmd[k] = "-c:v"}}
        /\ "-crf" \in Range(build.cmd) => build.video_encoder = NONE

\* a command that copies the video stream has been built for options that
\* ask for a video bitrate, and it holds no video bitrate argument
CopyBuiltWithBitrateRequested ==
    /\ Built
    /\ build.target_video_codec = "copy"
    /\ build.options.bitrate # NoValue
    /\ "-b:v" \notin Range(build.cmd)

\* C22: a built command that holds an explicit stream map (its options set
\* preserve_all_audio, preserve_subtitles or remove_attachments) also maps a
\* video stream explicitly; a command built without those options holds no
\* explicit map.
ExplicitMapsIncludeVideo ==
    Built =>
        /\ MapsOf(build.cmd) # {} => MapsOf(build.cmd) \cap {"0:v", "0:v:0"} # {}
        /\ IF \/ build.options.preserve_all_audio
              \/ build.options.preserve_subtitles
              \/ build.options.remove_attachments
           THEN MapsOf(build.cmd) \cap {"0:v", "0:v:0"} # {}
           ELSE "-map" \notin Range(build.cmd)

\* a command has been built whose only stream option is remove_attachments:
\* it maps the attachments away and maps the video stream
AttachmentsRemovedVideoMapped ==
    /\ Built
    /\ build.options.remove_attachments
    /\ ~build.options.preserve_all_audio
    /\ ~build.options.preserve_subtitles
    /\ MapsOf(build.cmd) = {"-0:t?", "0:v"}

\* C23: with smart_encode, a built command copies the video stream only if
\* the probed video codec is the requested codec and no scale is requested;
\* whenever a scale is requested the video is not copied.
StreamCopyOnlyWithoutScale ==
    (Built /\ build.options.smart_encode) =>
        /\ build.target_video_codec = "copy"
              => /\ request.input_codec = build.options.codec
                 /\ build.options.scale = NONE
        /\ build.options.scale # NONE => build.target_video_codec # "copy"

(* the claims about the process supervisor are stated over SupervisorSpec *)
\* the -progress end marker
EndMarker == <<"progress", "=", "end">>

\* C24: when transcode() with a progress callback returns after an exit
\* with code 0, the last invocation of the callback has been one with
\* fraction 1.0, whatever the output held and whether or not the duration
\* is known.
FinalCallbackOnCleanExit ==
    (/\ client.mode = "transcode"
     /\ client.pc = "returned"
     /\ client.result = "CompletedProcess"
     /\ transcode_process.returncode = Num(0)
     /\ transcode_process.progress_callback # NONE)
    => /\ calls # <<>>
       /\ calls[Len(calls)].fraction = One

\* C25: no reader thread is ever ended by an exception of the callback, so
\* each goes on reading until the end of its stream.
CallbackErrorsNeverStopParsing ==
    \A c \in Channels : readers[c] \in {"none", "reading", "eof"}

\* the callback raises, it has been invoked for the first line of stdout, and
\* the reader of stdout has read a line after that one and reached the end
RaisedAndReadOn ==
    /\ transcode_process.progress_callback = "RuntimeError"
    /\ readers["stdout"] = "eof"
    /\ Len(buffers["stdout"]) >= 2
    /\ buffers["stdout"][1] \in {EndMarker, <<"out_time", "=", "00:01:00">>}
    /\ calls # <<>>

\* C26: every fraction reported lies in [0, 1], and every fraction reported
\* for an elapsed time equals min(elapsed / total, 1.0); for total 120 s and
\* elapsed 60 s it is 1/2.
ProgressFractionIsCappedRatio ==
    \A i \in DOMAIN calls :
        LET f == calls[i].fraction
            e == calls[i].current_seconds
            d == calls[i].duration_seconds
        IN /\ f[2] > 0 /\ 0 <= f[1] /\ f[1] <= f[2]
           /\ calls[i].source \in {"out_time", "fallback"} =>
                 /\ d > 0
                 /\ f[1] * d = (IF e < d THEN e ELSE d) * f[2]
                 /\ (d = 120 /\ e = 60) => 2 * f[1] = f[2]

\* fractions have been reported for 60 s of 120 s and for 180 s of 120 s
HalfAndCappedReported ==
    \E i, j \in DOMAIN calls :
        /\ calls[i].source = "out_time" /\ calls[i].current_seconds = 60
        /\ calls[i].duration_seconds = 120
        /\ calls[j].source = "out_time" /\ calls[j].current_seconds = 180

\* C27: with a callback, every progress=end record read has caused one
\* invocation with fraction exactly 1.0, whether or not the duration is known
\* and whatever was read before.
EndMarkerReportsOne ==
    transcode_process.progress_callback # NONE =>
        Cardinality({i \in DOMAIN calls :
                        calls[i].source = "end" /\ calls[i].fraction = One})
          = Cardinality({<<c, i>> \in Channels \X (1..MaxLines) :
                            i <= Len(buffers[c]) /\ buffers[c][i] = EndMarker})

\* the end marker has been read and reported after an elapsed-time record,
\* the duration being unknown
EndReportedWithoutDuration ==
    /\ transcode_process._duration_seconds = NoValue
    /\ Len(buffers["stdout"]) >= 2
    /\ buffers["stdout"][1] = <<"out_time", "=", "00:01:00">>
    /\ buffers["stdout"][2] = EndMarker
    /\ \E i \in DOMAIN calls : calls[i].source = "end" /\ calls[i].fraction = One

\* C28: finished holds only when started does; started and finished, once
\* true, stay true, and the return code of a finished supervisor does not
\* change; start() on a started supervisor raises and changes neither the
\* object, the process nor the readers; wait() on a supervisor that is not
\* started raises and changes nothing.
SupervisorLifecycle ==
    /\ [](transcode_process.finished => transcode_process.started)
    /\ [][/\ transcode_process.started => transcode_process'.started
          /\ transcode_process.finished =>
                /\ transcode_process'.finished
                /\ transcode_process'.returncode = transcode_process.returncode
          /\ (/\ client.pc = "calling_start"
              /\ client'.pc # "calling_start"
              /\ transcode_process.started)
             => /\ client'.result = "RuntimeError"
                /\ UNCHANGED <<transcode_process, child, readers, pipes, buffers>>
          /\ (/\ client.pc = "calling_wait"
              /\ client'.pc # "calling_wait"
              /\ ~transcode_process.started)
             => /\ client'.result = "RuntimeError"
                /\ UNCHANGED <<transcode_process, child, readers, pipes, buffers>>
         ]_vars

\* start() has raised on a supervisor that is finished
StartRaisedWhenFinished ==
    /\ client.pc = "idle"
    /\ client.result = "RuntimeError"
    /\ transcode_process.started
    /\ transcode_process.finished

\* C29: terminate() on a supervisor with a process that is not finished
\* asks the process to terminate, without killing it, and waits with a
\* timeout; after that wait it kills the process if the process has not
\* exited; the process is killed at no other point; terminate() on a
\* supervisor that is not started or is finished changes nothing.
TerminateEscalates ==
    [][/\ (client.pc = "calling_terminate" /\ client'.pc # "calling_terminate")
            => IF transcode_process.process /\ ~transcode_process.finished
               THEN /\ child.state = "running" => child'.terminate
                    /\ child'.kill = child.kill
                    /\ client'.pc = "process_wait"
                    /\ client'.timeout
               ELSE /\ client'.pc = "idle"
                    /\ UNCHANGED <<transcode_process, child, readers>>
       /\ (client.pc = "terminate_check" /\ client'.pc # "terminate_check")
            => IF ~transcode_process.finished /\ child.state = "running"
               THEN child'.kill /\ child'.state = "exited"
               ELSE child' = child
       /\ (child'.kill /\ ~child.kill)
            => /\ child.terminate
               /\ client.pc = "terminate_check"
               /\ ~transcode_process.finished
      ]_vars

\* terminate() has asked the process to terminate and then killed it
TerminatedThenKilled ==
    /\ child.terminate
    /\ child.kill
    /\ client.pc = "idle"
    /\ client.result = "done"

\* C30: when wait() has returned the exit code (to its caller or to
\* transcode()), both readers have reached the end of their streams and no
\* line is left unread; a reader with a line to read can read it whatever
\* the other channel does.
WaitReturnsAfterReaders ==
    /\ client.result \in {"returncode", "CompletedProcess"}
          => \A c \in Channels : readers[c] = "eof" /\ pipes[c] = <<>>
    /\ \A c \in Channels :
          (readers[c] = "reading" /\ pipes[c] # <<>>) => ENABLED _read_output(c)

\* wait() has returned the exit code of a process that wrote two lines to
\* stdout and nothing to stderr
ReturnedWithSilentStderr ==
    /\ client.result = "returncode"
    /\ buffers["stderr"] = <<>>
    /\ Len(buffers["stdout"]) >= 2

ValidPresetBuildsWithoutValidationFailure ==
    (/\ request.preset_name = "p"
     /\ request.args = EmptyPreset
     /\ validate_presets_data(request.presets_data[1]) = <<>>
     /\ validate_preset_config(Item(request.presets_data[1], "p")) = <<>>
     /\ request.output_ext = Item(request.presets_data[1], "p").container
     /\ build.pc \in {"raised", "built", "started"})
    => build.kind # "ValueError"

\* C33: every change of a job's status is one of pending to processing,
\* processing to completed, processing to failed, pending to cancelled and
\* processing to cancelled (or the creation of the job as pending).
OnlyStateMachineTransitions ==
    [][\A j \in JobIds :
          status'[j] # status[j] =>
              <<status[j], status'[j]>> \in
                  {<<"none", "pending">>, <<"pending", "processing">>,
                   <<"processing", "completed">>, <<"processing", "failed">>,
                   <<"pending", "cancelled">>, <<"processing", "cancelled">>}]_vars

\* C34: no job becomes processing while a job created earlier is pending.
AdmissionNeverOvertakes ==
    [][\A j \in JobIds :
          status[j] # "processing" /\ status'[j] = "processing"
              => \A i \in JobIds : i < j => status[i] # "pending"]_vars

\* C36: the number of running encoder processes (the worker threads that
\* are in process.wait()) never exceeds max_concurrent_jobs (which no step
\* of this specification changes).
LiveProcessesWithinLimit ==
    BagCardinality([r \in {t \in BagToSet(threads) : t.pc = "running"} |-> threads[r]])
        <= max_concurrent_jobs

\* C37: a pending job does not stay pending for ever: it is admitted to
\* processing (or is cancelled), every started thread running on and every
\* encoder process exiting.
NoPendingJobStarves ==
    \A j \in JobIds : (status[j] = "pending") ~> (status[j] # "pending")

\* C38: a job whose progress is 1.0 is completed (so the progress of a
\* pending, processing, failed or cancelled job is below 1.0).
FullProgressOnlyWhenCompleted ==
    \A j \in JobIds : progress[j] = 100 => status[j] = "completed"

\* a step of import_presets in merge mode leaves every existing preset
\* unchanged and adds exactly the imported presets with a new name, and one
\* whose presets fail validation changes nothing
MergeOrInvalidImport ==
    LET imported == response'.presets
        before == load_config(config_file).presets
        after == load_config(config_file').presets
    IN /\ (validate_presets_data(imported) = <<>> /\ response'.merge_mode = "merge") =>
              /\ Keys(after) = Keys(before) \cup Keys(imported)
              /\ \A name \in Keys(before) : Item(after, name) = Item(before, name)
              /\ \A name \in Keys(imported) \ Keys(before) :
                    Item(after, name) = Item(imported, name)
       /\ validate_presets_data(imported) # <<>> =>
              /\ config_file' = config_file
              /\ SamePresets(after, before)

\* C31 as stated: a merge import leaves every existing preset unchanged and
\* adds only the imported presets whose names are new; after an overwrite
\* import the preset table equals the imported table; an import that fails
\* validation changes nothing
ImportMergesOrOverwrites ==
    [][response'.handler = "import_presets" =>
          /\ MergeOrInvalidImport
          /\ (validate_presets_data(response'.presets) = <<>>
                /\ response'.merge_mode = "overwrite") =>
                 SamePresets(load_config(config_file').presets, response'.presets)]_vars

\* C31: a merge import leaves every existing preset unchanged and adds only
\* the imported presets whose names are new; after an overwrite import the
\* stored preset table equals the imported table, and the preset table in
\* effect equals it unless the imported table is empty, when the default
\* presets are in effect; an import that fails validation changes nothing
ImportMergesOrStores ==
    [][response'.handler = "import_presets" =>
          /\ MergeOrInvalidImport
          /\ (validate_presets_data(response'.presets) = <<>>
                /\ response'.merge_mode = "overwrite") =>
                 /\ SamePresets(config_file'.presets, response'.presets)
                 /\ SamePresets(load_config(config_file').presets,
                                IF response'.presets = <<>> THEN default_presets
                                ELSE response'.presets)]_vars

\* a merge import of a preset under an existing name and one under a new
\* name: the existing preset is kept and the new one is added
MergedWithConflict ==
    /\ response.handler = "import_presets"
    /\ response.merge_mode = "merge"
    /\ response.outcome = "saved"
    /\ Keys(response.presets) = {"high", "new"}
    /\ "high" \in Keys(response.before)
    /\ "new" \notin Keys(response.before)
    /\ Item(response.presets, "high") # Item(response.before, "high")
    /\ Item(load_config(config_file).presets, "high") = Item(response.before, "high")
    /\ Item(load_config(config_file).presets, "new") = Item(response.presets, "new")

\* C32: after a capabilities document was saved, the configuration loaded
\* from storage holds a document identical to the one saved: the same
\* hwaccel, device, encoders and fallback_encoders
SavedCapabilitiesLoadIdentical ==
    (response.handler = "save_hw_capabilities" /\ response.outcome = "saved") =>
        LET loaded == load_config(config_file).hw_capabilities
        IN /\ loaded = response.document
           /\ \A key \in {"hwaccel", "device", "encoders", "fallback_encoders"} :
                 /\ HasKey(loaded, key)
                 /\ Get(loaded, key) = Get(response.document, key)

\* the document of a detection without hardware encoders (hwaccel is null)
\* was saved and is loaded again
SavedSoftwareOnlyCapabilities ==
    /\ response.handler = "save_hw_capabilities"
    /\ response.outcome = "saved"
    /\ response.document = capabilities_json(detect_capabilities({}))
    /\ Get(load_config(config_file).hw_capabilities, "hwaccel") = Null
    /\ Get(Get(load_config(config_file).hw_capabilities, "fallback_encoders"), "hevc")
          = Str("libx265")

\* C40: across any sequence of start_scheduler and stop_scheduler calls at
\* most one scheduler loop thread is running at any time
AtMostOneSchedulerLoop == Cardinality({t \in DOMAIN loops : is_alive(t)}) <= 1

====
